---- MODULE Spec2Model ----
(***************************************************************************)
(* Verification model of two planners of the protobuf compiler:            *)
(*   - objectivec/file.cc: the memoized closure that computes, per file,   *)
(*     the minimal set of dependencies whose extension registries must be  *)
(*     merged (CollectMinimalFileDepsContainingExtensions), and            *)
(*   - java/message_builder.cc: the Builder that MessageBuilderGenerator   *)
(*     emits (clear, clearOneof, mergeFrom, parsing, isInitialized).       *)
(***************************************************************************)
EXTENDS Naturals, Integers, Sequences, FiniteSets, TLC

(***************************************************************************)
(* Bounds                                                                  *)
(***************************************************************************)
\* number of FileDescriptors in the pool
NFiles == 4

\* scalar payloads are 1..MaxVal (0 is the default of an unset field)
MaxVal == 2

\* most elements a repeated field holds
MaxLen == 2

\* most unknown fields a message carries
MaxUnknown == 1

\* Longest field list of the message types every generator method is run on.
MaxFields == 2

\* Most presence words of the wide message types the bit fields are counted on.
MaxWords == 1

\* Deepest nesting of messages in the values isInitialized() is run on.
MaxDepth == 2

Files == 1..NFiles

VARIABLES
    \* ---- objectivec/file.cc -------------------------------------------
    dependency,       \* file |-> sequence of file->dependency(i)
    has_ext,          \* file |-> FileContainsExtensions(file)
    deps_info_cache,  \* CommonState::deps_info_cache
    stack,            \* activation records of ...ExtensionsInternal
    cpc,              \* "idle" | "run" | "sort"
    requested,        \* argument of the running / last public call (0: none)
    ret,              \* entry returned by the outermost internal call
    result,           \* vector returned by the last public call
    \* ---- java/message_builder.cc: the generated Builder ------------------
    descriptor,       \* name of the message type the Builder is generated for
    builder,          \* fields of the Builder object
    op,               \* operation that just ran ("idle": none)
    other,            \* argument of the mergeFrom that just ran
    pre,              \* the Builder's fields when the operation started
    trace,            \* statements of the generated method that ran
    \* ---- java/message_builder.cc: two merges against one ---------------
    second,           \* argument of the second of two mergeFrom calls
    combined,         \* the Builder after one mergeFrom of both arguments
    \* ---- java/message_builder.cc: the generator ------------------------
    schema,           \* descriptor_ of the MessageBuilderGenerator
    gop,              \* generator method that ran ("idle": none)
    out,              \* what the method printed
    \* ---- java/message_builder.cc: the generated mergeFrom(input) -------
    input,            \* what the CodedInputStream still holds
    ppc,              \* "idle" | "readTag" | "switch" | "finally" |
                      \* "returned" | "thrown"
    tag,              \* int tag: the field read last
    done,             \* boolean done
    exception,        \* the exception in flight ("none": none)
    events,           \* calls the method made so far
    merged,           \* fields the cases stored into the Builder so far
    \* ---- java/message_builder.cc: the generated isInitialized() -------
    message,          \* the value isInitialized() runs on
    valid,            \* what isInitialized() returned ("none": not run) and
                      \* the check that made it return false (0: none)
    \* ---- objectivec/file.cc: two workers on one CommonState -----------
    workers,          \* worker |-> position, file asked for, activation
                      \* records, entry and vector returned
    serialized,       \* whether the driver runs whole calls one at a time
    lock,             \* the worker whose call the driver lets run
    inserts,          \* file |-> workers that computed and inserted its entry
    raced             \* an insert ran unordered with another worker's call

cvars == <<dependency, has_ext, deps_info_cache, stack, cpc,
           requested, ret, result>>

bvars == <<descriptor, builder, op, other, pre, trace>>

avars == <<second, combined>>

svars == <<schema, gop, out>>

pvars == <<input, ppc, tag, done, exception, events, merged>>

ivars == <<message, valid>>

kvars == <<workers, serialized, lock, inserts, raced>>

rvars == <<pvars, ivars, kvars>>

gvars == <<avars, svars, rvars>>

vars == <<cvars, bvars, gvars>>

\* The variables of the parts a specification does not run.
AssocUnused == second = <<>> /\ combined = <<>>

GeneratorUnused == schema = <<>> /\ gop = "idle" /\ out = <<>>

ParseUnused ==
    /\ input = <<>>
    /\ ppc = "idle"
    /\ tag = 0
    /\ done = FALSE
    /\ exception = "none"
    /\ events = <<>>
    /\ merged = <<>>

ValidateUnused == message = <<>> /\ valid = [result |-> "none", at |-> 0]

WorkersUnused ==
    /\ workers = <<>>
    /\ serialized = TRUE
    /\ lock = "none"
    /\ inserts = <<>>
    /\ raced = FALSE

RuntimeUnused == ParseUnused /\ ValidateUnused /\ WorkersUnused

OthersUnused == AssocUnused /\ GeneratorUnused /\ RuntimeUnused

(***************************************************************************)
(* java/message_builder.cc: descriptors and message values                 *)
(***************************************************************************)

FieldDescriptor(n, num, ty, lab, oo, mt) ==
    [name |-> n, number |-> num, type |-> ty, label |-> lab,
     containing_oneof |-> oo, message_type |-> mt]

\* The message types the generator is run on.
\*   message Sub    { optional int32 x = 1; optional int32 y = 2; }
\*   message Pair   { optional int32 s = 1; optional Sub m = 2; }
\*   message Choice { oneof o { int32 a = 1; Sub b = 3; }
\*                    optional int32 s = 2; extensions 100 to 100; }
\*   message List   { repeated int32 r = 1; required int32 s = 2; }
Descriptor(t) ==
    CASE t = "Sub" ->
           [field |-> <<FieldDescriptor("x", 1, "int32", "optional", "", ""),
                        FieldDescriptor("y", 2, "int32", "optional", "", "")>>,
            extension_range_count |-> 0]
      [] t = "Pair" ->
           [field |-> <<FieldDescriptor("s", 1, "int32", "optional", "", ""),
                        FieldDescriptor("m", 2, "message", "optional", "",
                                        "Sub")>>,
            extension_range_count |-> 0]
      [] t = "Choice" ->
           [field |-> <<FieldDescriptor("a", 1, "int32", "optional", "o", ""),
                        FieldDescriptor("s", 2, "int32", "optional", "", ""),
                        FieldDescriptor("b", 3, "message", "optional", "o",
                                        "Sub")>>,
            extension_range_count |-> 1]
      [] t = "List" ->
           [field |-> <<FieldDescriptor("r", 1, "int32", "repeated", "", ""),
                        FieldDescriptor("s", 2, "int32", "required", "", "")>>,
            extension_range_count |-> 0]

RootTypes == {"Pair", "Choice", "List"}

Fields(t) == {Descriptor(t).field[i] : i \in DOMAIN Descriptor(t).field}

\* IsRealOneof(field)
IsRealOneof(fd) == fd.containing_oneof # ""

\* oneofs_, as filled by the constructor of the generator
Oneofs(t) == {fd.containing_oneof : fd \in {g \in Fields(t) : IsRealOneof(g)}}

\* oneof->field(j), in declaration order
OneofFields(t, o) ==
    SelectSeq(Descriptor(t).field, LAMBDA fd : fd.containing_oneof = o)

PlainFields(t) == {fd \in Fields(t) : ~IsRealOneof(fd)}

FieldNamed(t, n) == CHOOSE fd \in Fields(t) : fd.name = n

\* Extension numbers a message of the type can carry.
ExtensionNumbers(t) ==
    IF Descriptor(t).extension_range_count > 0 THEN {100} ELSE {}

\* All sequences over S of length at most n.
SeqsUpTo(S, n) == UNION {[1..k -> S] : k \in 0..n}

NullSlot == <<"null", 0>>

\* The state of a plain field of which nothing is set.
RECURSIVE DefaultInstance(_)
DefaultFieldState(fd) ==
    IF fd.label = "repeated" THEN [has |-> FALSE, val |-> <<>>]
    ELSE IF fd.type = "message"
         THEN [has |-> FALSE, val |-> DefaultInstance(fd.message_type)]
         ELSE [has |-> FALSE, val |-> 0]

\* $classname$.getDefaultInstance(): nothing set. A Builder holds the same
\* fields as a message: per plain field its presence bit and value, per oneof
\* the case selector and the shared slot, the extensions and unknown fields.
DefaultInstance(t) ==
    [f         |-> [n \in {fd.name : fd \in PlainFields(t)} |->
                       DefaultFieldState(FieldNamed(t, n))],
     oneofCase |-> [o \in Oneofs(t) |-> 0],
     oneof     |-> [o \in Oneofs(t) |-> NullSlot],
     ext       |-> {},
     unknown   |-> <<>>]

\* The states one plain field can be in.
RECURSIVE Messages(_, _)
FieldStates(fd) ==
    IF fd.label = "repeated"
    THEN {[has |-> FALSE, val |-> q] : q \in SeqsUpTo(1..MaxVal, MaxLen)}
    ELSE IF fd.type = "message"
         THEN {[has |-> FALSE, val |-> DefaultInstance(fd.message_type)]}
              \cup {[has |-> TRUE, val |-> m] :
                        m \in Messages(fd.message_type, FALSE)}
         ELSE {[has |-> FALSE, val |-> 0]}
              \cup {[has |-> TRUE, val |-> v] : v \in 1..MaxVal}

\* The states one oneof can be in: not set, or exactly one member's value.
MemberSlots(fd) ==
    IF fd.type = "message"
    THEN {<<"message", m>> : m \in Messages(fd.message_type, FALSE)}
    ELSE {<<"int32", v>> : v \in 1..MaxVal}

OneofStates(t, o) ==
    {[case |-> 0, slot |-> NullSlot]} \cup
    UNION {{[case |-> fd.number, slot |-> sl] : sl \in MemberSlots(fd)} :
              fd \in {g \in Fields(t) : g.containing_oneof = o}}

\* All assignments of a state to each of a set of names.
RECURSIVE Assignments(_, _)
Assignments(names, dom) ==
    IF names = {} THEN {[n \in {} |-> 0]}
    ELSE LET n0 == CHOOSE n \in names : TRUE
         IN  {[n \in names |-> IF n = n0 THEN x ELSE g[n]] :
                 x \in dom[n0], g \in Assignments(names \ {n0}, dom)}

\* The message values of a type. Nested values carry no extensions and no
\* unknown fields.
Messages(t, top) ==
    LET fdom == [n \in {fd.name : fd \in PlainFields(t)} |->
                    FieldStates(FieldNamed(t, n))]
        odom == [o \in Oneofs(t) |-> OneofStates(t, o)]
    IN  {[f         |-> fs,
          oneofCase |-> [o \in Oneofs(t) |-> os[o].case],
          oneof     |-> [o \in Oneofs(t) |-> os[o].slot],
          ext       |-> e,
          unknown   |-> u] :
            fs \in Assignments({fd.name : fd \in PlainFields(t)}, fdom),
            os \in Assignments(Oneofs(t), odom),
            e \in (IF top THEN SUBSET ExtensionNumbers(t) ELSE {{}}),
            u \in (IF top THEN SeqsUpTo({0}, MaxUnknown) ELSE {<<>>})}

\* An argument of mergeFrom: the type's default instance itself, or another
\* message object (which may be empty as well).
Sources(t) ==
    {[ref |-> "default", m |-> DefaultInstance(t)]} \cup
    {[ref |-> "object", m |-> m] : m \in Messages(t, TRUE)}

\* The arguments of mergeFrom and of the setters, per type.
SourcesOf == [t \in RootTypes |-> Sources(t)]

NestedMessagesOf == [t \in {"Sub"} |-> Messages(t, FALSE)]

\* has$name$() of a oneof member: the case selector names the member.
HasMember(b, fd) == b.oneofCase[fd.containing_oneof] = fd.number

(***************************************************************************)
(* java/message_builder.cc: the methods of the generated Builder           *)
(***************************************************************************)

RECURSIVE MergeFromOp(_, _, _)

\* The merging code of a plain field with a repeated field taking over the
\* source's elements instead of appending them.
MergeField_ReplacesRepeated(t, b, o, fd) ==
    LET theirs == o.f[fd.name]
    IN  IF fd.label = "repeated"
        THEN [b EXCEPT !.f[fd.name].val = theirs.val]
        ELSE IF ~theirs.has THEN b
        ELSE [b EXCEPT !.f[fd.name] = [has |-> TRUE, val |-> theirs.val]]

\* The merging code of a plain field that takes over the source's value of a
\* singular field without setting the presence bit.
MergeField_ForgetsBit(t, b, o, fd) ==
    LET mine   == b.f[fd.name]
        theirs == o.f[fd.name]
    IN  IF fd.label = "repeated"
        THEN [b EXCEPT !.f[fd.name].val = @ \o theirs.val]
        ELSE IF ~theirs.has THEN b
        ELSE IF fd.type = "message" /\ mine.has
        THEN [b EXCEPT !.f[fd.name].val =
                 MergeFromOp(fd.message_type, mine.val,
                             [ref |-> "object", m |-> theirs.val]).b]
        ELSE [b EXCEPT !.f[fd.name].val = theirs.val]

\* GenerateMergingCode of the generator of a plain field: a scalar is
\* overwritten when the source has it, a message is adopted or merged into the
\* existing value, a repeated field is appended to.
MergeField(t, b, o, fd) ==
    LET mine   == b.f[fd.name]
        theirs == o.f[fd.name]
    IN  IF fd.label = "repeated"
        THEN [b EXCEPT !.f[fd.name].val = @ \o theirs.val]
        ELSE IF ~theirs.has THEN b
        ELSE IF fd.type = "message" /\ mine.has
        THEN [b EXCEPT !.f[fd.name].val =
                 MergeFromOp(fd.message_type, mine.val,
                             [ref |-> "object", m |-> theirs.val]).b]
        ELSE [b EXCEPT !.f[fd.name] = [has |-> TRUE, val |-> theirs.val]]

\* GenerateMergingCode of the generator of a oneof member: the member's value
\* is taken from the source (merged into the current value when the member is
\* a message that is already the active one) and the case is set to it.
MergeOneofMember(t, b, o, fd) ==
    LET oo == fd.containing_oneof
    IN  IF fd.type = "message" /\ HasMember(b, fd)
        THEN [b EXCEPT !.oneof[oo] =
                 <<"message",
                   MergeFromOp(fd.message_type, b.oneof[oo][2],
                               [ref |-> "object", m |-> o.oneof[oo][2]]).b>>]
        ELSE [b EXCEPT !.oneofCase[oo] = fd.number,
                       !.oneof[oo] = o.oneof[oo]]

\* The switch entered only while this Builder's own oneof is not set.
MergeOneof_KeepsOwnCase(t, b, o, oname) ==
    LET members == OneofFields(t, oname)
        hit     == {j \in DOMAIN members :
                       members[j].number = o.oneofCase[oname]}
    IN  IF hit = {} \/ b.oneofCase[oname] # 0 THEN b
        ELSE MergeOneofMember(t, b, o, members[CHOOSE j \in hit : TRUE])

\* switch (other.get$oneof$Case()) with one case per member, each running the
\* member's merging code, and the NOT_SET case doing nothing.
MergeOneof(t, b, o, oname) ==
    LET members == OneofFields(t, oname)
        hit     == {j \in DOMAIN members :
                       members[j].number = o.oneofCase[oname]}
    IN  IF hit = {} THEN b
        ELSE MergeOneofMember(t, b, o, members[CHOOSE j \in hit : TRUE])

\* this.mergeExtensionFields(other), of the runtime's ExtendableBuilder
MergeExtensionFields(b, o) == [b EXCEPT !.ext = @ \cup o.ext]

\* this.mergeUnknownFields(other.getUnknownFields()), of the runtime
MergeUnknownFields(b, o) == [b EXCEPT !.unknown = @ \o o.unknown]

\* The merging code of the plain fields printed from the last field to the
\* first.
PlainMergeActions_Reversed(t) ==
    LET plain == SelectSeq(Descriptor(t).field, LAMBDA fd : ~IsRealOneof(fd))
    IN  [i \in DOMAIN plain |->
            <<"field", plain[Len(plain) + 1 - i].name>>]

\* The statements mergeFrom(other) is made of, in the order they are printed.
PlainMergeActions(t) ==
    LET plain == SelectSeq(Descriptor(t).field, LAMBDA fd : ~IsRealOneof(fd))
    IN  [i \in DOMAIN plain |-> <<"field", plain[i].name>>]

OneofMergeActions(t) ==
    LET members == SelectSeq(Descriptor(t).field, IsRealOneof)
        firsts  == SelectSeq(
                       [i \in DOMAIN members |->
                           IF \E j \in 1..(i - 1) :
                                 members[j].containing_oneof =
                                 members[i].containing_oneof
                           THEN "" ELSE members[i].containing_oneof],
                       LAMBDA x : x # "")
    IN  [i \in DOMAIN firsts |-> <<"oneof", firsts[i]>>]

\* The statements with the extension merge printed after the unknown fields.
MergePlan_ExtensionsLast(t) ==
    PlainMergeActions(t) \o OneofMergeActions(t) \o
    <<<<"unknown", "">>>> \o
    (IF Descriptor(t).extension_range_count > 0
     THEN <<<<"extensions", "">>>> ELSE <<>>) \o
    <<<<"onChanged", "">>>>

\* The statements without the merging code of the plain fields.
MergePlan_NoPlainFields(t) ==
    OneofMergeActions(t) \o
    (IF Descriptor(t).extension_range_count > 0
     THEN <<<<"extensions", "">>>> ELSE <<>>) \o
    <<<<"unknown", "">>>> \o <<<<"onChanged", "">>>>

MergePlan(t) ==
    PlainMergeActions(t) \o OneofMergeActions(t) \o
    (IF Descriptor(t).extension_range_count > 0
     THEN <<<<"extensions", "">>>> ELSE <<>>) \o
    <<<<"unknown", "">>>> \o <<<<"onChanged", "">>>>

\* One statement of the plan, run on Builder fields b with source o.
ExecMergeAction(t, b, o, act) ==
    CASE act[1] = "field"      -> MergeField(t, b, o, FieldNamed(t, act[2]))
      [] act[1] = "oneof"      -> MergeOneof(t, b, o, act[2])
      [] act[1] = "extensions" -> MergeExtensionFields(b, o)
      [] act[1] = "unknown"    -> MergeUnknownFields(b, o)
      [] act[1] = "onChanged"  -> b

RECURSIVE RunPlan(_, _, _, _)
RunPlan(t, b, o, plan) ==
    IF plan = <<>> THEN b
    ELSE RunPlan(t, ExecMergeAction(t, b, o, Head(plan)), o, Tail(plan))

\* mergeFrom(other) without the test for the default instance.
MergeFromOp_NoFastPath(t, b, src) ==
    [b |-> RunPlan(t, b, src.m, MergePlan(t)), trace |-> MergePlan(t)]

\* mergeFrom($classname$ other): returns at once for the default instance,
\* else runs the statements. Yields the fields of the Builder afterwards and
\* the statements that ran.
MergeFromOp(t, b, src) ==
    IF src.ref = "default" THEN [b |-> b, trace |-> <<>>]
    ELSE [b |-> RunPlan(t, b, src.m, MergePlan(t)), trace |-> MergePlan(t)]

\* clear$oneof$() that leaves the shared slot as it is.
ClearOneofOp_KeepsSlot(t, b, oname) == [b EXCEPT !.oneofCase[oname] = 0]

\* clear$oneof$(): the case selector is reset and the slot released.
ClearOneofOp(t, b, oname) ==
    [b EXCEPT !.oneofCase[oname] = 0, !.oneof[oname] = NullSlot]

\* clear(): super.clear() drops extensions and unknown fields, the clear
\* code of every field resets it, and every oneof is reset.
ClearOp(t, b) ==
    LET b1 == [b EXCEPT !.ext = {}, !.unknown = <<>>]
        b2 == [b1 EXCEPT !.f = [n \in DOMAIN @ |->
                                   DefaultFieldState(FieldNamed(t, n))]]
    IN  [b2 EXCEPT !.oneofCase = [o \in DOMAIN @ |-> 0],
                   !.oneof = [o \in DOMAIN @ |-> NullSlot]]

\* The values a setter of the field takes.
SetterArgs(fd) ==
    IF fd.type = "message" THEN NestedMessagesOf[fd.message_type]
    ELSE 1..MaxVal

\* set$name$(value) / add$name$(value) of the field's generator.
SetFieldOp(t, b, fd, v) ==
    IF IsRealOneof(fd)
    THEN [b EXCEPT !.oneofCase[fd.containing_oneof] = fd.number,
                   !.oneof[fd.containing_oneof] = <<fd.type, v>>]
    ELSE IF fd.label = "repeated"
    THEN [b EXCEPT !.f[fd.name].val = Append(@, v)]
    ELSE [b EXCEPT !.f[fd.name] = [has |-> TRUE, val |-> v]]

\* The model keeps the containers within their bounds.
WithinBounds(t, b) ==
    /\ Len(b.unknown) <= MaxUnknown
    /\ \A fd \in PlainFields(t) :
           fd.label = "repeated" => Len(b.f[fd.name].val) <= MaxLen

DefaultSource(t) == [ref |-> "default", m |-> DefaultInstance(t)]

MergeFrom(src) ==
    /\ op = "idle"
    /\ LET after == MergeFromOp(descriptor, builder, src)
       IN  /\ WithinBounds(descriptor, after.b)
           /\ builder' = after.b
           /\ trace' = after.trace
    /\ pre' = builder
    /\ other' = src
    /\ op' = "mergeFrom"
    /\ UNCHANGED <<descriptor, cvars, gvars>>

Clear ==
    /\ op = "idle"
    /\ builder' = ClearOp(descriptor, builder)
    /\ trace' = <<<<"clear", "">>>>
    /\ pre' = builder
    /\ op' = "clear"
    /\ UNCHANGED <<descriptor, other, cvars, gvars>>

ClearOneof(oname) ==
    /\ op = "idle"
    /\ builder' = ClearOneofOp(descriptor, builder, oname)
    /\ trace' = <<<<"clearOneof", oname>>, <<"onChanged", "">>>>
    /\ pre' = builder
    /\ op' = "clearOneof"
    /\ UNCHANGED <<descriptor, other, cvars, gvars>>

SetField(fd, v) ==
    /\ op = "idle"
    /\ LET after == SetFieldOp(descriptor, builder, fd, v)
       IN  /\ WithinBounds(descriptor, after)
           /\ builder' = after
    /\ trace' = <<<<"set", fd.name>>, <<"onChanged", "">>>>
    /\ pre' = builder
    /\ op' = "set"
    /\ UNCHANGED <<descriptor, other, cvars, gvars>>

\* The method returns to the caller.
Return ==
    /\ op # "idle"
    /\ op' = "idle"
    /\ pre' = DefaultInstance(descriptor)
    /\ other' = DefaultSource(descriptor)
    /\ trace' = <<>>
    /\ UNCHANGED <<descriptor, builder, cvars, gvars>>

(***************************************************************************)
(* objectivec/file.cc: extension dependency closure                       *)
(***************************************************************************)

\* The sequence that lists the elements of a set of files by ascending id.
RECURSIVE AscSeq(_)
AscSeq(S) ==
    IF S = {} THEN <<>>
    ELSE LET m == CHOOSE x \in S : \A y \in S : x <= y
         IN  <<m>> \o AscSeq(S \ {m})

\* All orders in which a hash set may be iterated.
Orders(S) ==
    {s \in [1..Cardinality(S) -> S] : \A i, j \in 1..Cardinality(S) :
                                         i # j => s[i] # s[j]}

Range(s) == {s[i] : i \in DOMAIN s}

\* The import relation is acyclic: a file imports only files of a lower id.
DependencyGraphs ==
    {[f \in Files |-> AscSeq(g[f])] :
        g \in {h \in [Files -> SUBSET Files] :
                  \A f \in Files : \A x \in h[f] : x < f}}

\* file->name(), as the rank of the name in string order. Names are pairwise
\* distinct and their order is unrelated to the order of the ids, which stand
\* for the descriptors' addresses.
FileName(file) ==
    IF file % 2 = 0 THEN file \div 2 ELSE NFiles - (file \div 2)

NoEntry == [has_extensions |-> FALSE, min_deps |-> {}, covered_deps |-> {}]

EmptyCache == [f \in {} |-> NoEntry]

\* flat_hash_map::insert: keeps an element that is already there.
CacheInsert(cache, file, entry) ==
    IF file \in DOMAIN cache THEN cache
    ELSE [x \in DOMAIN cache \cup {file} |->
             IF x = file THEN entry ELSE cache[x]]

\* The locals of one activation of the internal function, as set up after
\* the cache lookup missed.
NewFrame(file) ==
    [file |-> file, i |-> 1,
     min_deps_collector |-> {}, covered_deps_collector |-> {},
     to_prune |-> {}]

\* FoldDep with the min_deps of a dependency without extensions dropped
\* instead of forwarded.
FoldDep_NoForward(fr, dep, dep_info) ==
    LET covered1 == fr.covered_deps_collector \cup dep_info.covered_deps
        prune1   == fr.to_prune \cup dep_info.covered_deps
    IN  IF dep_info.has_extensions
        THEN [fr EXCEPT !.i = @ + 1,
                        !.min_deps_collector = @ \cup {dep},
                        !.to_prune = prune1 \cup dep_info.min_deps,
                        !.covered_deps_collector =
                            covered1 \cup dep_info.min_deps]
        ELSE [fr EXCEPT !.i = @ + 1,
                        !.covered_deps_collector = covered1,
                        !.to_prune = prune1]

\* FoldDep with a dependency that defines extensions counted as covered too.
FoldDep_CoversDep(fr, dep, dep_info) ==
    LET covered1 == fr.covered_deps_collector \cup dep_info.covered_deps
        prune1   == fr.to_prune \cup dep_info.covered_deps
    IN  IF dep_info.has_extensions
        THEN [fr EXCEPT !.i = @ + 1,
                        !.min_deps_collector = @ \cup {dep},
                        !.to_prune = prune1 \cup dep_info.min_deps,
                        !.covered_deps_collector =
                            covered1 \cup dep_info.min_deps \cup {dep}]
        ELSE [fr EXCEPT !.i = @ + 1,
                        !.covered_deps_collector = covered1,
                        !.to_prune = prune1,
                        !.min_deps_collector = @ \cup dep_info.min_deps]

\* FoldDep that prunes the min_deps of a dependency with extensions only, not
\* what the dependencies cover.
FoldDep_PrunesMinOnly(fr, dep, dep_info) ==
    LET covered1 == fr.covered_deps_collector \cup dep_info.covered_deps
    IN  IF dep_info.has_extensions
        THEN [fr EXCEPT !.i = @ + 1,
                        !.min_deps_collector = @ \cup {dep},
                        !.to_prune = @ \cup dep_info.min_deps,
                        !.covered_deps_collector =
                            covered1 \cup dep_info.min_deps]
        ELSE [fr EXCEPT !.i = @ + 1,
                        !.covered_deps_collector = covered1,
                        !.min_deps_collector = @ \cup dep_info.min_deps]

\* FoldDep that does not take over what the dependency covers.
FoldDep_ForgetsCovered(fr, dep, dep_info) ==
    LET prune1 == fr.to_prune \cup dep_info.covered_deps
    IN  IF dep_info.has_extensions
        THEN [fr EXCEPT !.i = @ + 1,
                        !.min_deps_collector = @ \cup {dep},
                        !.to_prune = prune1 \cup dep_info.min_deps,
                        !.covered_deps_collector = @ \cup dep_info.min_deps]
        ELSE [fr EXCEPT !.i = @ + 1,
                        !.to_prune = prune1,
                        !.min_deps_collector = @ \cup dep_info.min_deps]

\* FoldDep that never moves on to the next dependency.
FoldDep_NoAdvance(fr, dep, dep_info) ==
    LET covered1 == fr.covered_deps_collector \cup dep_info.covered_deps
        prune1   == fr.to_prune \cup dep_info.covered_deps
    IN  IF dep_info.has_extensions
        THEN [fr EXCEPT !.min_deps_collector = @ \cup {dep},
                        !.to_prune = prune1 \cup dep_info.min_deps,
                        !.covered_deps_collector =
                            covered1 \cup dep_info.min_deps]
        ELSE [fr EXCEPT !.covered_deps_collector = covered1,
                        !.to_prune = prune1,
                        !.min_deps_collector = @ \cup dep_info.min_deps]

\* Body of the loop over the dependencies, after the recursive call returned
\* dep_info for dep.
FoldDep(fr, dep, dep_info) ==
    LET covered1 == fr.covered_deps_collector \cup dep_info.covered_deps
        prune1   == fr.to_prune \cup dep_info.covered_deps
    IN  IF dep_info.has_extensions
        THEN [fr EXCEPT !.i = @ + 1,
                        !.min_deps_collector = @ \cup {dep},
                        !.to_prune = prune1 \cup dep_info.min_deps,
                        !.covered_deps_collector =
                            covered1 \cup dep_info.min_deps]
        ELSE [fr EXCEPT !.i = @ + 1,
                        !.covered_deps_collector = covered1,
                        !.to_prune = prune1,
                        !.min_deps_collector = @ \cup dep_info.min_deps]

FileContainsExtensions(file) == has_ext[file]

\* The fast path taken for every file.
FastPath_Always(fr) == TRUE

\* Whether the code takes the fast path that stores the collector unpruned.
FastPath(fr) ==
    fr.to_prune = {} \/ Len(dependency[fr.file]) = 1

\* The copy_if with a predicate that keeps every file.
PruneMinDeps_KeepAll(fr) == fr.min_deps_collector

\* The copy_if that drops the pruned files.
PruneMinDeps(fr) ==
    {value \in fr.min_deps_collector : value \notin fr.to_prune}

\* The entry stored for the frame's file once all dependencies are folded.
MakeEntry(fr) ==
    [has_extensions |-> FileContainsExtensions(fr.file),
     min_deps       |-> IF FastPath(fr) THEN fr.min_deps_collector
                        ELSE PruneMinDeps(fr),
     covered_deps   |-> fr.covered_deps_collector]

\* A comparator on the descriptors' addresses instead of their names.
FileDescriptorsOrderedByAddress(a, b) == a < b

\* FileDescriptorsOrderedByName: a->name() < b->name()
FileDescriptorsOrderedByName(a, b) == FileName(a) < FileName(b)

\* Insertion of x into a sequence ordered by the comparator.
RECURSIVE SortedInsert(_, _)
SortedInsert(s, x) ==
    IF s = <<>> THEN <<x>>
    ELSE IF FileDescriptorsOrderedByName(x, Head(s))
         THEN <<x>> \o s
         ELSE <<Head(s)>> \o SortedInsert(Tail(s), x)

\* std::sort(result.begin(), result.end(), FileDescriptorsOrderedByName())
RECURSIVE SortByName(_)
SortByName(s) ==
    IF s = <<>> THEN <<>>
    ELSE SortedInsert(SortByName(Tail(s)), Head(s))

\* The value handed back to the caller of an activation: the caller folds it
\* into its own locals, or, for the outermost call, the public function goes
\* on to sort it.
Deliver(rest, dep, entry) ==
    IF rest = <<>>
    THEN /\ stack' = <<>>
         /\ ret' = entry
         /\ cpc' = "sort"
    ELSE /\ stack' = <<FoldDep(Head(rest), dep, entry)>> \o Tail(rest)
         /\ ret' = ret
         /\ cpc' = "run"

\* A public call on a cached file that skips the lookup and starts the loop
\* over the dependencies again.
CollectCached_Revisit(file) ==
    /\ cpc = "idle"
    /\ file \in DOMAIN deps_info_cache
    /\ requested' = file
    /\ stack' = <<NewFrame(file)>>
    /\ cpc' = "run"
    /\ ret' = NoEntry
    /\ result' = <<>>
    /\ UNCHANGED <<bvars, gvars>>
    /\ UNCHANGED <<dependency, has_ext, deps_info_cache>>

\* A public call CollectMinimalFileDepsContainingExtensions(file) whose
\* lookup in deps_info_cache hits: the cached entry is returned at once.
CollectCached(file) ==
    /\ cpc = "idle"
    /\ file \in DOMAIN deps_info_cache
    /\ requested' = file
    /\ Deliver(<<>>, file, deps_info_cache[file])
    /\ result' = <<>>
    /\ UNCHANGED <<bvars, gvars>>
    /\ UNCHANGED <<dependency, has_ext, deps_info_cache>>

\* A public call whose lookup misses: the internal function starts its loop.
CollectFresh(file) ==
    /\ cpc = "idle"
    /\ file \notin DOMAIN deps_info_cache
    /\ requested' = file
    /\ stack' = <<NewFrame(file)>>
    /\ cpc' = "run"
    /\ ret' = NoEntry
    /\ result' = <<>>
    /\ UNCHANGED <<bvars, gvars>>
    /\ UNCHANGED <<dependency, has_ext, deps_info_cache>>

\* The loop calls the function on the next dependency, which is cached: the
\* call returns the cached entry and the loop body folds it.
CallDepCached ==
    /\ cpc = "run"
    /\ Head(stack).i <= Len(dependency[Head(stack).file])
    /\ LET dep == dependency[Head(stack).file][Head(stack).i]
       IN  /\ dep \in DOMAIN deps_info_cache
           /\ Deliver(stack, dep, deps_info_cache[dep])
    /\ UNCHANGED <<bvars, gvars>>
    /\ UNCHANGED <<dependency, has_ext, deps_info_cache, requested,
                   result>>

\* The loop calls the function on the next dependency, which is not cached:
\* a new activation starts.
CallDepFresh ==
    /\ cpc = "run"
    /\ Head(stack).i <= Len(dependency[Head(stack).file])
    /\ LET dep == dependency[Head(stack).file][Head(stack).i]
       IN  /\ dep \notin DOMAIN deps_info_cache
           /\ stack' = <<NewFrame(dep)>> \o stack
    /\ UNCHANGED <<bvars, gvars>>
    /\ UNCHANGED <<dependency, has_ext, deps_info_cache, cpc,
                   requested, ret, result>>

\* The loop is over: the entry is inserted in the cache and returned.
InsertEntry ==
    /\ cpc = "run"
    /\ Head(stack).i > Len(dependency[Head(stack).file])
    /\ deps_info_cache' =
           CacheInsert(deps_info_cache, Head(stack).file,
                       MakeEntry(Head(stack)))
    /\ Deliver(Tail(stack), Head(stack).file,
               deps_info_cache'[Head(stack).file])
    /\ UNCHANGED <<bvars, gvars>>
    /\ UNCHANGED <<dependency, has_ext, requested, result>>

\* The public function copies min_deps to a vector in the hash set's
\* iteration order, sorts it and returns it.
SortResult ==
    /\ cpc = "sort"
    /\ \E order \in Orders(ret.min_deps) :
           result' = SortByName(order)
    /\ cpc' = "idle"
    /\ UNCHANGED <<bvars, gvars>>
    /\ UNCHANGED <<dependency, has_ext, deps_info_cache, stack,
                   requested, ret>>

ClosureInit ==
    /\ dependency \in DependencyGraphs
    /\ has_ext \in [Files -> BOOLEAN]
    /\ deps_info_cache = EmptyCache
    /\ stack = <<>>
    /\ cpc = "idle"
    /\ requested = 0
    /\ ret = NoEntry
    /\ result = <<>>
    /\ descriptor = "Sub"
    /\ builder = DefaultInstance("Sub")
    /\ op = "idle"
    /\ other = DefaultSource("Sub")
    /\ pre = DefaultInstance("Sub")
    /\ trace = <<>>
    /\ OthersUnused

ClosureNext ==
    \/ \E file \in Files : CollectCached(file)
    \/ \E file \in Files : CollectFresh(file)
    \/ CallDepCached
    \/ CallDepFresh
    \/ InsertEntry
    \/ SortResult

\* The call in progress runs to its end: straight-line sequential code.
ClosureStep == CallDepCached \/ CallDepFresh \/ InsertEntry \/ SortResult

ClosureSpec == ClosureInit /\ [][ClosureNext]_vars

ClosureFairSpec == ClosureSpec /\ WF_vars(ClosureStep)

(***************************************************************************)
(* Properties of the closure                                               *)
(***************************************************************************)

Cached(f) == f \in DOMAIN deps_info_cache

\* Cached min_deps / covered_deps of a file.
MinDeps(f) == deps_info_cache[f].min_deps

CoveredDeps(f) == deps_info_cache[f].covered_deps

\* Direct and indirect dependencies of a file.
RECURSIVE TransDeps(_)
TransDeps(f) ==
    UNION {{d} \cup TransDeps(d) : d \in Range(dependency[f])}

\* Files reached from a by following cached min_deps one or more times.
RECURSIVE MinReach(_)
MinReach(a) ==
    UNION {{m} \cup MinReach(m) : m \in MinDeps(a)}

\* The files whose extensions the generated extensionRegistry of f holds: its
\* own when it defines extensions, and those of the registries it merges in.
RECURSIVE Registry(_)
Registry(f) ==
    (IF has_ext[f] THEN {f} ELSE {}) \cup
    UNION {Registry(m) : m \in MinDeps(f)}

\* The entry a computation from an empty memo table yields for a file.
RECURSIVE FreshEntry(_)
RECURSIVE FreshFold(_, _)
FreshFold(fr, k) ==
    IF k > Len(dependency[fr.file]) THEN fr
    ELSE FreshFold(FoldDep(fr, dependency[fr.file][k],
                           FreshEntry(dependency[fr.file][k])), k + 1)

FreshEntry(f) == MakeEntry(FreshFold(NewFrame(f), 1))

\* Whether a sequence of files is strictly ascending by file name.
AscendingByName(s) ==
    \A i, j \in DOMAIN s : i < j => FileName(s[i]) < FileName(s[j])

\* C1: no element of a cached min_deps(F) is reachable from another element
\* of min_deps(F) by following min_deps one or more times.
C1_NoRedundantMinDeps ==
    \A f \in DOMAIN deps_info_cache :
        \A a, b \in MinDeps(f) : a # b => b \notin MinReach(a)

\* C1 witness: an entry whose pruning dropped a direct dependency that defines
\* extensions and is reachable from a kept element.
C1_Witness ==
    \E f \in DOMAIN deps_info_cache :
        \E a \in MinDeps(f) : \E b \in Range(dependency[f]) :
            /\ has_ext[b]
            /\ b \notin MinDeps(f)
            /\ b \in MinReach(a)

\* C2: the registry chain of every file with a cached entry holds every file
\* that defines extensions among the file and its direct and indirect
\* dependencies.
C2_RegistryComplete ==
    \A f \in DOMAIN deps_info_cache :
        {g \in TransDeps(f) \cup {f} : has_ext[g]} \subseteq Registry(f)

\* C2 witness: an extension-defining indirect dependency that is not listed in
\* min_deps(F) and is still part of F's registry chain.
C2_Witness ==
    \E f \in DOMAIN deps_info_cache :
        \E g \in TransDeps(f) :
            /\ has_ext[g]
            /\ g \notin Range(dependency[f])
            /\ g \notin MinDeps(f)
            /\ g \in Registry(f)

\* The scenario graph: A = 3 imports B = 1 and C = 2, C imports B, B defines
\* extensions and imports nothing, C defines none.
ScenarioABC ==
    /\ dependency[3] = <<1, 2>>
    /\ dependency[2] = <<1>>
    /\ dependency[1] = <<>>
    /\ has_ext[1]
    /\ ~has_ext[2]

\* C3 as stated: in the scenario the entry of A has min_deps = {B} and
\* covered_deps a superset of {B}.
C3_Original ==
    (ScenarioABC /\ Cached(3)) =>
        (MinDeps(3) = {1} /\ {1} \subseteq CoveredDeps(3))

\* C3 amended: in the scenario the entry of A has min_deps = {B} and an empty
\* covered_deps (B is listed in min_deps, and covered_deps never holds a
\* member of min_deps).
C3_ScenarioEntry ==
    (ScenarioABC /\ Cached(3)) =>
        (MinDeps(3) = {1} /\ CoveredDeps(3) = {})

\* C3 witness: the scenario's entry for A has been computed.
C3_Witness == ScenarioABC /\ Cached(3) /\ cpc = "idle" /\ requested = 3

\* C4: the vector returned by the public call lists exactly the elements of
\* the cached min_deps of the requested file, each once, strictly ascending by
\* file name, and they are the elements a computation from an empty memo
\* table yields.
C4_SortedResult ==
    (cpc = "idle" /\ requested # 0) =>
        /\ AscendingByName(result)
        /\ Range(result) = MinDeps(requested)
        /\ Len(result) = Cardinality(MinDeps(requested))
        /\ Range(result) = FreshEntry(requested).min_deps

\* C4 witness: a call returned two or more files whose name order differs
\* from their id order, with entries of earlier calls in the memo table.
C4_Witness ==
    /\ cpc = "idle"
    /\ requested # 0
    /\ Len(result) >= 2
    /\ \E i, j \in DOMAIN result : i < j /\ result[i] > result[j]
    /\ \E g \in DOMAIN deps_info_cache :
           g \notin TransDeps(requested) \cup {requested}

\* C5: every public call that started eventually returns, with an entry for
\* the requested file in the memo table.
C5_Terminates ==
    \A f \in Files :
        (cpc = "run" /\ requested = f) ~> (cpc = "idle" /\ Cached(f))

\* C5: a step of the running call is always possible (there is no stuck or
\* error state on the path) and the call stack never holds a file twice.
C5_NoStuckCall ==
    (cpc # "idle") =>
        /\ ENABLED ClosureStep
        /\ \A i, j \in DOMAIN stack : i # j => stack[i].file # stack[j].file

\* C5 witness: a call that recursed through every file has returned.
C5_Witness ==
    /\ cpc = "idle"
    /\ requested = NFiles
    /\ DOMAIN deps_info_cache = Files
    /\ \A f \in Files : f > 1 => dependency[f] # <<>>

(***************************************************************************)
(* The Builder of one message type, from construction                      *)
(***************************************************************************)

BuilderInit ==
    /\ descriptor \in RootTypes
    /\ builder = DefaultInstance(descriptor)
    /\ op = "idle"
    /\ other = DefaultSource(descriptor)
    /\ pre = DefaultInstance(descriptor)
    /\ trace = <<>>
    /\ dependency = [f \in Files |-> <<>>]
    /\ has_ext = [f \in Files |-> FALSE]
    /\ deps_info_cache = EmptyCache
    /\ stack = <<>>
    /\ cpc = "idle"
    /\ requested = 0
    /\ ret = NoEntry
    /\ result = <<>>
    /\ OthersUnused

BuilderNext ==
    \/ \E src \in SourcesOf[descriptor] : MergeFrom(src)
    \/ Clear
    \/ \E oname \in Oneofs(descriptor) : ClearOneof(oname)
    \/ \E fd \in Fields(descriptor) : \E v \in SetterArgs(fd) : SetField(fd, v)
    \/ Return

BuilderSpec == BuilderInit /\ [][BuilderNext]_vars

(***************************************************************************)
(* Properties of the Builder                                               *)
(***************************************************************************)

\* The merge statements of a trace: all but the change notification.
MergeActions(tr) == SelectSeq(tr, LAMBDA act : act[1] # "onChanged")

\* The members of a oneof.
Members(t, oname) == {fd \in Fields(t) : fd.containing_oneof = oname}

\* C6: a mergeFrom of the default instance leaves every field of the Builder
\* as it was (values, presence bits, oneof cases and slots, extensions,
\* unknown fields) and runs no merge statement.
C6_DefaultMergeNoOp ==
    (op = "mergeFrom" /\ other.ref = "default") =>
        (builder = pre /\ trace = <<>>)

\* C6 witness: the default instance was merged into a Builder with a plain
\* field, a oneof member, an extension and unknown fields set.
C6_Witness ==
    /\ descriptor = "Choice"
    /\ op = "mergeFrom"
    /\ other.ref = "default"
    /\ pre.f["s"].has
    /\ pre.oneofCase["o"] # 0
    /\ pre.ext # {}
    /\ pre.unknown # <<>>

\* C7: after a mergeFrom whose source has member F of a oneof active, the
\* Builder's case of that oneof is F, F is its only member observable as set
\* and the slot holds a value of F (the source's, for a scalar); when the
\* source's case is not-set, the Builder's case and slot are as before.
C7_OneofMerge ==
    op = "mergeFrom" =>
        \A oname \in Oneofs(descriptor) :
            LET c == other.m.oneofCase[oname]
            IN  IF c = 0
                THEN /\ builder.oneofCase[oname] = pre.oneofCase[oname]
                     /\ builder.oneof[oname] = pre.oneof[oname]
                ELSE /\ builder.oneofCase[oname] = c
                     /\ \A fd \in Members(descriptor, oname) :
                            /\ HasMember(builder, fd) <=> fd.number = c
                            /\ fd.number = c =>
                                   builder.oneof[oname][1] = fd.type
                            /\ (fd.number = c /\ fd.type = "int32") =>
                                   builder.oneof[oname] = other.m.oneof[oname]

\* C7 witness: a source with member a active was merged into a Builder that
\* had member b active.
C7_Witness ==
    /\ descriptor = "Choice"
    /\ op = "mergeFrom"
    /\ other.m.oneofCase["o"] = 1
    /\ pre.oneofCase["o"] = 3

\* C8: in every state of a Builder every oneof is either not set, with case 0
\* and an empty slot, or has exactly one active member whose value is in the
\* slot; clear$oneof$() and clear() end with case 0 and an empty slot.
C8_OneofExclusive ==
    /\ \A oname \in Oneofs(descriptor) :
           \/ /\ builder.oneofCase[oname] = 0
              /\ builder.oneof[oname] = NullSlot
           \/ /\ Cardinality({fd \in Members(descriptor, oname) :
                                 HasMember(builder, fd)}) = 1
              /\ \A fd \in Members(descriptor, oname) :
                     HasMember(builder, fd) =>
                         builder.oneof[oname] \in MemberSlots(fd)
    /\ op = "clearOneof" =>
           /\ builder.oneofCase[trace[1][2]] = 0
           /\ builder.oneof[trace[1][2]] = NullSlot
    /\ op = "clear" =>
           \A oname \in Oneofs(descriptor) :
               /\ builder.oneofCase[oname] = 0
               /\ builder.oneof[oname] = NullSlot

\* C8 witness: clear$oneof$() ran on a Builder whose oneof had a member set.
C8_Witness ==
    /\ descriptor = "Choice"
    /\ op = "clearOneof"
    /\ pre.oneofCase["o"] = 3
    /\ builder.oneofCase["o"] = 0

\* C9: the merge statements run for a source that is not the default
\* instance hold one statement per plain field and per oneof, then the
\* extension merge exactly when the type has extension ranges, then the
\* unknown-field merge as the last one.
C9_MergeOrder ==
    (op = "mergeFrom" /\ other.ref # "default") =>
        LET acts   == MergeActions(trace)
            n      == Len(acts)
            hasExt == Descriptor(descriptor).extension_range_count > 0
            nDecl  == IF hasExt THEN n - 2 ELSE n - 1
        IN  /\ n >= 1
            /\ acts[n][1] = "unknown"
            /\ hasExt => (n >= 2 /\ acts[n - 1][1] = "extensions")
            /\ \A i \in 1..nDecl : acts[i][1] \in {"field", "oneof"}
            /\ \A fd \in PlainFields(descriptor) :
                   \E i \in 1..nDecl : acts[i] = <<"field", fd.name>>
            /\ \A oname \in Oneofs(descriptor) :
                   \E i \in 1..nDecl : acts[i] = <<"oneof", oname>>

\* C9 witness: a merge into a Builder of a type with extension ranges, from a
\* source that carries an extension and unknown fields.
C9_Witness ==
    /\ descriptor = "Choice"
    /\ op = "mergeFrom"
    /\ other.ref = "object"
    /\ other.m.ext # {}
    /\ other.m.unknown # <<>>
    /\ other.m.oneofCase["o"] # 0

\* C10: merge of a singular message field. Source unset: the Builder's value
\* and presence are as before. Source set, Builder unset: the Builder takes
\* the source's value and is set. Both set: the Builder stays set and every
\* sub-field has the source's state when the source has it, else the state
\* it had in the Builder.
C10_MessageFieldMerge ==
    op = "mergeFrom" =>
        \A fd \in PlainFields(descriptor) :
            (fd.type = "message" /\ fd.label # "repeated") =>
                LET s == other.m.f[fd.name]
                    d == pre.f[fd.name]
                    r == builder.f[fd.name]
                IN  /\ ~s.has => r = d
                    /\ (s.has /\ ~d.has) => r = [has |-> TRUE, val |-> s.val]
                    /\ (s.has /\ d.has) =>
                           /\ r.has
                           /\ \A sub \in PlainFields(fd.message_type) :
                                  r.val.f[sub.name] =
                                      IF s.val.f[sub.name].has
                                      THEN s.val.f[sub.name]
                                      ELSE d.val.f[sub.name]

\* C10 witness: both sides had the field set; x was set only in the Builder
\* and y in both, with different values.
C10_Witness ==
    /\ descriptor = "Pair"
    /\ op = "mergeFrom"
    /\ pre.f["m"].has
    /\ other.m.f["m"].has
    /\ pre.f["m"].val.f["x"].has
    /\ ~other.m.f["m"].val.f["x"].has
    /\ pre.f["m"].val.f["y"].has
    /\ other.m.f["m"].val.f["y"].has
    /\ pre.f["m"].val.f["y"].val # other.m.f["m"].val.f["y"].val

\* C11: after a mergeFrom the elements of a repeated field are the elements
\* the Builder had, followed by the source's elements in their order, with
\* duplicates kept; the length is the sum of the two lengths.
C11_RepeatedAppend ==
    op = "mergeFrom" =>
        \A fd \in PlainFields(descriptor) :
            fd.label = "repeated" =>
                /\ builder.f[fd.name].val =
                       pre.f[fd.name].val \o other.m.f[fd.name].val
                /\ Len(builder.f[fd.name].val) =
                       Len(pre.f[fd.name].val) + Len(other.m.f[fd.name].val)

\* C11 witness: both sides held the same single element, which is now there
\* twice.
C11_Witness ==
    /\ descriptor = "List"
    /\ op = "mergeFrom"
    /\ pre.f["r"].val = <<1>>
    /\ other.m.f["r"].val = <<1>>
    /\ builder.f["r"].val = <<1, 1>>

(***************************************************************************)
(* java/message_builder.cc: mergeFrom of two sources, one by one and as one *)
(***************************************************************************)

\* The closure's variables, for the specifications that do not run it.
ClosureUnused ==
    /\ dependency = [f \in Files |-> <<>>]
    /\ has_ext = [f \in Files |-> FALSE]
    /\ deps_info_cache = EmptyCache
    /\ stack = <<>>
    /\ cpc = "idle"
    /\ requested = 0
    /\ ret = NoEntry
    /\ result = <<>>

\* The names of the fields a message has set: a singular field with its
\* presence bit, a repeated field with an element, the active oneof member.
SetFields(t, m) ==
    {fd.name : fd \in {g \in PlainFields(t) :
                          IF g.label = "repeated" THEN m.f[g.name].val # <<>>
                          ELSE m.f[g.name].has}}
    \cup {fd.name : fd \in {g \in Fields(t) \ PlainFields(t) :
                               HasMember(m, g)}}

\* The message values a Builder or a source holds here: declared fields only.
FieldMessagesOf == [t \in RootTypes |-> Messages(t, FALSE)]

\* The pairs of sources that set disjoint sets of fields.
DisjointSourcesOf ==
    [t \in RootTypes |->
        UNION {{<<a, b>> :
                    b \in {c \in FieldMessagesOf[t] :
                              SetFields(t, a) \cap SetFields(t, c) = {}}} :
                  a \in FieldMessagesOf[t]}]

\* newBuilder().mergeFrom(a).mergeFrom(b).buildPartial(): a then b as one
\* message.
Combination(t, a, b) ==
    LET ab == MergeFromOp(t, MergeFromOp(t, DefaultInstance(t),
                                         [ref |-> "object", m |-> a]).b,
                          [ref |-> "object", m |-> b]).b
    IN  [ref |-> "object", m |-> ab]

\* mergeFrom(a) then mergeFrom(b) on the Builder, next to one mergeFrom of the
\* combination of a and b on a Builder with the same fields.
MergeTwice(a, b) ==
    /\ op = "idle"
    /\ builder' =
           MergeFromOp(descriptor,
                       MergeFromOp(descriptor, builder,
                                   [ref |-> "object", m |-> a]).b,
                       [ref |-> "object", m |-> b]).b
    /\ combined' =
           MergeFromOp(descriptor, builder, Combination(descriptor, a, b)).b
    /\ pre' = builder
    /\ other' = [ref |-> "object", m |-> a]
    /\ second' = [ref |-> "object", m |-> b]
    /\ op' = "mergeTwice"
    /\ UNCHANGED <<descriptor, trace, cvars, svars, rvars>>

AssocInit ==
    /\ descriptor \in RootTypes
    /\ builder \in FieldMessagesOf[descriptor]
    /\ op = "idle"
    /\ other = DefaultSource(descriptor)
    /\ pre = DefaultInstance(descriptor)
    /\ trace = <<>>
    /\ second = DefaultSource(descriptor)
    /\ combined = DefaultInstance(descriptor)
    /\ ClosureUnused
    /\ GeneratorUnused
    /\ RuntimeUnused

AssocNext ==
    /\ op = "idle"
    /\ \E p \in DisjointSourcesOf[descriptor] : MergeTwice(p[1], p[2])

AssocSpec == AssocInit /\ [][AssocNext]_vars

\* Whether two messages have members of one oneof set.
ShareOneof(t, a, b) ==
    \E oname \in Oneofs(t) : a.oneofCase[oname] # 0 /\ b.oneofCase[oname] # 0

\* C12 as stated: for sources a and b that set disjoint sets of fields,
\* merging the combination of a then b gives the state that merging a and
\* then b gives.
C12_Original ==
    op = "mergeTwice" => builder = combined

\* C12: for sources a and b that set disjoint sets of fields of which no two
\* are members of the same oneof, merging the combination of a then b into a
\* destination gives the state that merging a and then b gives.
C12_MergeAssociative ==
    (op = "mergeTwice" /\ ~ShareOneof(descriptor, other.m, second.m)) =>
        builder = combined

\* C12 witness: a set a message field that the destination had too, b a
\* scalar field, and the destination kept a sub-field of its own.
C12_Witness ==
    /\ descriptor = "Pair"
    /\ op = "mergeTwice"
    /\ pre.f["m"].has /\ pre.f["m"].val.f["x"].has
    /\ other.m.f["m"].has /\ ~other.m.f["m"].val.f["x"].has
    /\ other.m.f["m"].val.f["y"].has
    /\ second.m.f["s"].has
    /\ builder = combined
    /\ builder.f["m"].val.f["x"] = pre.f["m"].val.f["x"]

(***************************************************************************)
(* java/message_builder.cc: the generator run on a message type             *)
(***************************************************************************)

\* Width of a presence word: (totalBits + 31) / 32.
WordBits == 32

\* What the generator reads of a field, but for its name and number; the last
\* is whether the field's generator keeps the presence in the built message
\* too (1) or in the Builder only (0).
Kind(lab, ty, mt, oo, pk, mb) ==
    [label |-> lab, type |-> ty, message_type |-> mt,
     containing_oneof |-> oo, packed |-> pk, message_bits |-> mb]

\* The message types fields refer to.
\*   message Free { optional int32 p = 1; }
\*   message Leaf { required int32 q = 1; }
\*   message Wrap { optional Leaf l = 1; }
\*   LeafEntry: the entry type of map<int32, Leaf>
\*   message Node { optional Node next = 1; }
\*   message Link { required int32 q = 1; optional Link next = 2; }
TypeDescriptor(t) ==
    CASE t = "Free" ->
           [field |-> <<[name |-> "p", number |-> 1] @@
                        Kind("optional", "int32", "", "", FALSE, 1)>>,
            extension_range_count |-> 0, map_entry |-> FALSE]
      [] t = "Leaf" ->
           [field |-> <<[name |-> "q", number |-> 1] @@
                        Kind("required", "int32", "", "", FALSE, 1)>>,
            extension_range_count |-> 0, map_entry |-> FALSE]
      [] t = "Wrap" ->
           [field |-> <<[name |-> "l", number |-> 1] @@
                        Kind("optional", "message", "Leaf", "", FALSE, 1)>>,
            extension_range_count |-> 0, map_entry |-> FALSE]
      [] t = "LeafEntry" ->
           [field |-> <<[name |-> "key", number |-> 1] @@
                        Kind("optional", "int32", "", "", FALSE, 1),
                        [name |-> "value", number |-> 2] @@
                        Kind("optional", "message", "Leaf", "", FALSE, 1)>>,
            extension_range_count |-> 0, map_entry |-> TRUE]
      [] t = "Node" ->
           [field |-> <<[name |-> "next", number |-> 1] @@
                        Kind("optional", "message", "Node", "", FALSE, 1)>>,
            extension_range_count |-> 0, map_entry |-> FALSE]
      [] t = "Link" ->
           [field |-> <<[name |-> "q", number |-> 1] @@
                        Kind("required", "int32", "", "", FALSE, 1),
                        [name |-> "next", number |-> 2] @@
                        Kind("optional", "message", "Link", "", FALSE, 1)>>,
            extension_range_count |-> 0, map_entry |-> FALSE]

TypeNames == {"Free", "Leaf", "Wrap", "LeafEntry", "Node", "Link"}

\* The message types of the fields of a type.
FieldTypes(t) ==
    {TypeDescriptor(t).field[i].message_type :
        i \in {j \in DOMAIN TypeDescriptor(t).field :
                  TypeDescriptor(t).field[j].type = "message"}}

\* The types reached from a set of types through message fields, the types
\* of the set included; a type may reach itself.
RECURSIVE ReachedFrom(_)
ReachedFrom(S) ==
    LET next == S \cup UNION {FieldTypes(t) : t \in S}
    IN  IF next = S THEN S ELSE ReachedFrom(next)

DeclaresRequired(t) ==
    \E i \in DOMAIN TypeDescriptor(t).field :
        TypeDescriptor(t).field[i].label = "required"

\* The flag computed once per message type.
RequiredReachable ==
    [t \in TypeNames |-> \E u \in ReachedFrom({t}) : DeclaresRequired(u)]

\* HasRequiredFields that looks at the fields the type declares itself only.
HasRequiredFields_DirectOnly(t) == DeclaresRequired(t)

\* HasRequiredFields(type): whether a required field is declared anywhere in
\* the type graph reached from it.
HasRequiredFields(t) == RequiredReachable[t]

IsMapEntry(t) == TypeDescriptor(t).map_entry

\* The kinds of field of the message types the generator is run on.
Kinds ==
    {Kind("required", "int32", "", "", FALSE, 1),
     Kind("optional", "int32", "", "", FALSE, 1),
     Kind("repeated", "int32", "", "", FALSE, 0),
     Kind("repeated", "int32", "", "", TRUE, 0),
     Kind("repeated", "string", "", "", FALSE, 0),
     Kind("optional", "message", "Free", "", FALSE, 1),
     Kind("optional", "message", "Free", "", FALSE, 0),
     Kind("optional", "message", "Leaf", "", FALSE, 1),
     Kind("optional", "message", "Wrap", "", FALSE, 1),
     Kind("required", "message", "Leaf", "", FALSE, 1),
     Kind("required", "message", "Free", "", FALSE, 1),
     Kind("repeated", "message", "Leaf", "", FALSE, 0),
     Kind("repeated", "message", "LeafEntry", "", FALSE, 0),
     Kind("optional", "int32", "", "o", FALSE, 0),
     Kind("optional", "message", "Leaf", "o", FALSE, 0)}

\* The kinds the wide message types are made of.
WideKinds ==
    {Kind("optional", "int32", "", "", FALSE, 1),
     Kind("optional", "message", "Free", "", FALSE, 0),
     Kind("repeated", "int32", "", "", FALSE, 0)}

\* A message type with fields of the given kinds, named by their place in
\* the declaration and numbered along or against the declaration order.
MessageSpec(ks, order, ext) ==
    [field |-> [i \in 1..Len(ks) |->
                   [name |-> i,
                    number |-> IF order = "asc" THEN i ELSE Len(ks) + 1 - i]
                   @@ ks[i]],
     extension_range_count |-> ext]

SmallSchemas ==
    {MessageSpec(ks, order, ext) :
        ks \in SeqsUpTo(Kinds, MaxFields), order \in {"asc", "desc"},
        ext \in {0, 1}}

\* Message types long enough to fill one presence word and more.
WideSchemas ==
    {MessageSpec([i \in 1..n |-> pat[((i - 1) % Len(pat)) + 1]], "asc", 0) :
        pat \in SeqsUpTo(WideKinds, 2) \ {<<>>},
        n \in {WordBits * w + d : w \in 1..(2 * MaxWords), d \in {-1, 0, 1}}}

\* message Scenario { required int32 id = 1; optional Free child = 2;
\*                    repeated int32 tags = 3; }
ScenarioSchema ==
    MessageSpec(<<Kind("required", "int32", "", "", FALSE, 1),
                  Kind("optional", "message", "Free", "", FALSE, 1),
                  Kind("repeated", "int32", "", "", FALSE, 0)>>, "asc", 0)

\* FieldDescriptor::kMaxNumber: field numbers are 1 .. 2^29 - 1.
kMaxNumber == 2^29 - 1

\* Field numbers at the ends of the range and either side of 2^28, from
\* which on the tag of a field has its top bit set.
FarNumbers == {1, 2^28 - 1, 2^28, 2^28 + 1, kMaxNumber}

\* The kinds the fields with such numbers are of.
FarKinds ==
    {Kind("repeated", "int32", "", "", FALSE, 0),
     Kind("optional", "message", "Free", "", FALSE, 1)}

\* Message types whose fields carry pairwise distinct numbers of these.
FarSchemas ==
    UNION {{[field |-> [i \in 1..Len(ks) |->
                           [name |-> i, number |-> ns[i]] @@ ks[i]],
             extension_range_count |-> 0] :
               ns \in {f \in [1..Len(ks) -> FarNumbers] :
                          \A i, j \in 1..Len(ks) : i # j => f[i] # f[j]}} :
           ks \in SeqsUpTo(FarKinds, MaxFields) \ {<<>>}}

Schemas == SmallSchemas \cup WideSchemas \cup {ScenarioSchema} \cup FarSchemas

\* Sum of the values lo..hi of a sequence of numbers, and of the first n.
RECURSIVE SumOver(_, _, _)
SumOver(f, lo, hi) ==
    IF lo > hi THEN 0
    ELSE IF lo = hi THEN f[lo]
    ELSE LET mid == (lo + hi) \div 2
         IN  SumOver(f, lo, mid) + SumOver(f, mid + 1, hi)

SumTo(f, n) == SumOver(f, 1, n)

\* GetNumBitsForBuilder() with a bit for a repeated field as well.
GetNumBitsForBuilder_RepeatedBit(fd) ==
    IF IsRealOneof(fd) THEN 0 ELSE 1

\* GetNumBitsForBuilder() of the field's generator: a bit for a field with a
\* presence of its own, none for a repeated or map field or a oneof member.
GetNumBitsForBuilder(fd) ==
    IF fd.label = "repeated" \/ IsRealOneof(fd) THEN 0 ELSE 1

\* GetNumBitsForMessage() of the field's generator.
GetNumBitsForMessage(fd) ==
    IF fd.label = "repeated" \/ IsRealOneof(fd) THEN 0 ELSE fd.message_bits

BuilderBits(desc) ==
    [i \in DOMAIN desc.field |-> GetNumBitsForBuilder(desc.field[i])]

MessageBits(desc) ==
    [i \in DOMAIN desc.field |-> GetNumBitsForMessage(desc.field[i])]

\* GetBitFieldName(i)
GetBitFieldName(i) == <<"bitField", i>>

\* A word count rounded down instead of up.
WordCount_RoundsDown(totalBits) == totalBits \div WordBits

\* int totalInts = (totalBits + 31) / 32
WordCount(totalBits) == (totalBits + (WordBits - 1)) \div WordBits

\* Generate(): the bit field members of the Builder class.
BuilderBitFields(desc) ==
    LET totalBits == SumTo(BuilderBits(desc), Len(desc.field))
        totalInts == WordCount(totalBits)
    IN  [i \in 1..totalInts |-> GetBitFieldName(i - 1)]

\* buildPartial(): the from_ locals, one per Builder word, and the to_ locals,
\* one per word of the message.
BuildPartialBitFields(desc) ==
    LET totalBuilderBits == SumTo(BuilderBits(desc), Len(desc.field))
        totalMessageBits == SumTo(MessageBits(desc), Len(desc.field))
        totalBuilderInts == WordCount(totalBuilderBits)
        totalMessageInts == WordCount(totalMessageBits)
    IN  [from |-> [i \in 1..totalBuilderInts |-> GetBitFieldName(i - 1)],
         to   |-> [i \in 1..totalMessageInts |-> GetBitFieldName(i - 1)]]

\* The field generators of a message: each is built with the index of the
\* next free bit of either assignment, which moves on by the bits it takes.
FieldGenerators(desc) ==
    [i \in DOMAIN desc.field |->
        [field           |-> desc.field[i].name,
         builderBits     |-> BuilderBits(desc)[i],
         messageBits     |-> MessageBits(desc)[i],
         builderBitIndex |-> SumTo(BuilderBits(desc), i - 1),
         messageBitIndex |-> SumTo(MessageBits(desc), i - 1)]]

\* WireFormat::WireTypeForFieldType(type): varint for int32, length-delimited
\* for strings and messages.
WireTypeForFieldType(ty) == IF ty = "int32" THEN 0 ELSE 2

\* WireFormatLite::WIRETYPE_LENGTH_DELIMITED
WIRETYPE_LENGTH_DELIMITED == 2

\* A uint32_t as its top bit and its low 31 bits: the value is
\* hi * 2^31 + lo, with hi in {0, 1} and lo in 0 .. 2^31 - 1.
Uint32(hi, lo) == [hi |-> hi, lo |-> lo]

\* WireFormatLite::MakeTag(number, type): (number << 3) | type as a uint32_t.
\* Field numbers are below 2^29, so the shift drops no bit; bit 28 of the
\* number becomes the top bit of the tag.
MakeTag(number, wt) == Uint32(number \div 2^28, (number % 2^28) * 8 + wt)

\* The cast that keeps the low 31 bits and drops the top bit.
static_cast_int32_DropsTopBit(u) == u.lo

\* static_cast<int32_t>(tag): the same 32 bits read as two's complement, the
\* number the case label is printed from.
static_cast_int32(u) == u.lo - u.hi * 2^30 - u.hi * 2^30

\* field->is_packable(): a repeated field of a primitive type.
is_packable(fd) == fd.label = "repeated" /\ fd.type = "int32"

\* SortFieldsByNumber(descriptor_): the fields by ascending number. The
\* numbers of the fields of a message are pairwise distinct.
SortFieldsByNumber(fields) ==
    LET n    == Len(fields)
        rank == [i \in 1..n |->
                    1 + Cardinality({j \in 1..n :
                                        fields[j].number < fields[i].number})]
    IN  [k \in 1..n |-> fields[CHOOSE i \in 1..n : rank[i] = k]]

\* GenerateBuilderFieldParsingCase: case <tag of the field's wire type>
BuilderFieldParsingCase(fd) ==
    [tag   |-> static_cast_int32(
                   MakeTag(fd.number, WireTypeForFieldType(fd.type))),
     field |-> fd.name,
     code  |-> "GenerateBuilderParsingCode"]

\* GenerateBuilderPackedFieldParsingCase: case <length-delimited tag>
BuilderPackedFieldParsingCase(fd) ==
    [tag   |-> static_cast_int32(
                   MakeTag(fd.number, WIRETYPE_LENGTH_DELIMITED)),
     field |-> fd.name,
     code  |-> "GenerateBuilderParsingCodeFromPacked"]

\* The cases with the packed case printed only for a field declared packed.
CasesOfField_OnlyIfPacked(fd) ==
    <<BuilderFieldParsingCase(fd)>> \o
    (IF is_packable(fd) /\ fd.packed
     THEN <<BuilderPackedFieldParsingCase(fd)>> ELSE <<>>)

\* The cases of a field with the packed case printed first.
CasesOfField_PackedFirst(fd) ==
    (IF is_packable(fd) THEN <<BuilderPackedFieldParsingCase(fd)>> ELSE <<>>)
    \o <<BuilderFieldParsingCase(fd)>>

\* Body of the loop of GenerateBuilderFieldParsingCases for one field.
CasesOfField(fd) ==
    <<BuilderFieldParsingCase(fd)>> \o
    (IF is_packable(fd) THEN <<BuilderPackedFieldParsingCase(fd)>> ELSE <<>>)

\* The cases of the fields lo..hi of the sorted fields, in that order.
RECURSIVE CasesOfFields(_, _, _)
CasesOfFields(sorted, lo, hi) ==
    IF lo > hi THEN <<>>
    ELSE IF lo = hi THEN CasesOfField(sorted[lo])
    ELSE LET mid == (lo + hi) \div 2
         IN  CasesOfFields(sorted, lo, mid) \o CasesOfFields(sorted, mid + 1, hi)

\* GenerateBuilderFieldParsingCases: the cases of the switch on the tag, but
\* for case 0 and default.
BuilderFieldParsingCases(desc) ==
    LET sorted_fields == SortFieldsByNumber(desc.field)
    IN  CasesOfFields(sorted_fields, 1, Len(sorted_fields))

\* First loop of GenerateIsInitialized: if (!has$name$()) return false;
RequiredChecks(desc) ==
    LET req == SelectSeq(desc.field, LAMBDA fd : fd.label = "required")
    IN  [i \in DOMAIN req |->
            [guard |-> "none", test |-> "has", field |-> req[i].name]]

\* The check of an embedded message field with the one of a required field
\* put under a presence test as well.
EmbeddedCheck_GuardsRequired(fd) ==
    [guard |-> CASE fd.label = "required" -> "has"
                 [] fd.label = "optional" -> "has"
                 [] fd.label = "repeated" ->
                        IF IsMapEntry(fd.message_type) THEN "each value"
                        ELSE "each element",
     test  |-> "isInitialized",
     field |-> fd.name]

\* The check of an embedded message field with no presence test around the
\* one of an optional field.
EmbeddedCheck_Unguarded(fd) ==
    [guard |-> CASE fd.label = "required" -> "none"
                 [] fd.label = "optional" -> "none"
                 [] fd.label = "repeated" ->
                        IF IsMapEntry(fd.message_type) THEN "each value"
                        ELSE "each element",
     test  |-> "isInitialized",
     field |-> fd.name]

\* The check of one embedded message field, by the field's label.
EmbeddedCheck(fd) ==
    [guard |-> CASE fd.label = "required" -> "none"
                 [] fd.label = "optional" -> "has"
                 [] fd.label = "repeated" ->
                        IF IsMapEntry(fd.message_type) THEN "each value"
                        ELSE "each element",
     test  |-> "isInitialized",
     field |-> fd.name]

\* The embedded fields checked whatever their message type holds.
ChecksEmbedded_Unpruned(fd) == fd.type = "message"

\* GetJavaType(field) == JAVATYPE_MESSAGE &&
\* HasRequiredFields(field->message_type())
ChecksEmbedded(fd) ==
    fd.type = "message" /\ HasRequiredFields(fd.message_type)

\* Second loop of GenerateIsInitialized.
EmbeddedChecks(desc) ==
    LET emb == SelectSeq(desc.field, ChecksEmbedded)
    IN  [i \in DOMAIN emb |-> EmbeddedCheck(emb[i])]

\* if (!extensionsAreInitialized()) return false;
ExtensionsCheck(desc) ==
    IF desc.extension_range_count > 0
    THEN <<[guard |-> "none", test |-> "extensionsAreInitialized"]>>
    ELSE <<>>

\* GenerateIsInitialized: the checks before the final return true.
IsInitializedChecks(desc) ==
    RequiredChecks(desc) \o EmbeddedChecks(desc) \o ExtensionsCheck(desc)

\* The generator's methods, each run on the message type by itself.
Generate ==
    /\ gop = "idle"
    /\ gop' = "Generate"
    /\ out' = BuilderBitFields(schema)
    /\ UNCHANGED <<schema, cvars, bvars, avars, rvars>>

GenerateCommonBuilderMethods ==
    /\ gop = "idle"
    /\ gop' = "GenerateCommonBuilderMethods"
    /\ out' = BuildPartialBitFields(schema)
    /\ UNCHANGED <<schema, cvars, bvars, avars, rvars>>

GenerateBuilderFieldParsingCases ==
    /\ gop = "idle"
    /\ gop' = "GenerateBuilderFieldParsingCases"
    /\ out' = BuilderFieldParsingCases(schema)
    /\ UNCHANGED <<schema, cvars, bvars, avars, rvars>>

GenerateIsInitialized ==
    /\ gop = "idle"
    /\ gop' = "GenerateIsInitialized"
    /\ out' = IsInitializedChecks(schema)
    /\ UNCHANGED <<schema, cvars, bvars, avars, rvars>>

\* The constructor of the generator, which builds the field generators.
MessageBuilderGenerator ==
    /\ gop = "idle"
    /\ gop' = "MessageBuilderGenerator"
    /\ out' = FieldGenerators(schema)
    /\ UNCHANGED <<schema, cvars, bvars, avars, rvars>>

\* The Builder's variables, for the specifications that do not run it.
BuilderUnused ==
    /\ descriptor = "Sub"
    /\ builder = DefaultInstance("Sub")
    /\ op = "idle"
    /\ other = DefaultSource("Sub")
    /\ pre = DefaultInstance("Sub")
    /\ trace = <<>>

GeneratorInit ==
    /\ schema \in Schemas
    /\ gop = "idle"
    /\ out = <<>>
    /\ ClosureUnused
    /\ BuilderUnused
    /\ AssocUnused
    /\ RuntimeUnused

GeneratorNext ==
    \/ MessageBuilderGenerator
    \/ Generate
    \/ GenerateCommonBuilderMethods
    \/ GenerateBuilderFieldParsingCases
    \/ GenerateIsInitialized

GeneratorSpec == GeneratorInit /\ [][GeneratorNext]_vars

(***************************************************************************)
(* Properties of the generator                                             *)
(***************************************************************************)

\* The fields of the message type the generator runs on.
SchemaFields == {schema.field[i] : i \in DOMAIN schema.field}

\* The places of the cases printed for a field.
CasesFor(fd) == {j \in DOMAIN out : out[j].field = fd.name}

\* C13: the cases printed for the switch on the tag hold exactly one case for
\* every field that is not packable, with the tag of its wire type, and
\* exactly two for every packable field, one with the tag of its wire type
\* and one with the length-delimited tag, whether the field is declared packed
\* or not; their number is the field count plus the number of packable fields.
C13_DispatchTable ==
    gop = "GenerateBuilderFieldParsingCases" =>
        /\ \A fd \in SchemaFields :
               LET natural == static_cast_int32(
                                  MakeTag(fd.number,
                                          WireTypeForFieldType(fd.type)))
                   delim   == static_cast_int32(
                                  MakeTag(fd.number, WIRETYPE_LENGTH_DELIMITED))
               IN  IF is_packable(fd)
                   THEN /\ Cardinality(CasesFor(fd)) = 2
                        /\ \E j \in CasesFor(fd) : out[j].tag = natural
                        /\ \E j \in CasesFor(fd) : out[j].tag = delim
                        /\ natural # delim
                   ELSE /\ Cardinality(CasesFor(fd)) = 1
                        /\ \A j \in CasesFor(fd) : out[j].tag = natural
        /\ Len(out) = Len(schema.field)
                      + Cardinality({fd \in SchemaFields : is_packable(fd)})
        /\ schema = ScenarioSchema => Len(out) = 4

\* C13 witness: the cases of a type with a packable field that is not
\* declared packed and one that is, and a field that is not packable.
C13_Witness ==
    /\ gop = "GenerateBuilderFieldParsingCases"
    /\ \E fd \in SchemaFields : is_packable(fd) /\ ~fd.packed
    /\ \E fd \in SchemaFields : ~is_packable(fd)
    /\ Len(out) = 3

\* Whether no required field is reachable from the message type.
NoRequiredFields ==
    \A fd \in SchemaFields :
        /\ fd.label # "required"
        /\ fd.type = "message" => ~HasRequiredFields(fd.message_type)

\* C16 as stated: for a message type from which no required field is
\* reachable, isInitialized() holds no check at all.
C16_Original ==
    (gop = "GenerateIsInitialized" /\ NoRequiredFields) => out = <<>>

\* C16: for a message type from which no required field is reachable,
\* isInitialized() holds no check of a field; it holds the check of the
\* extensions, and only that, when the type has extension ranges, and no
\* check at all when it has none.
C16_ValidatorPruned ==
    (gop = "GenerateIsInitialized" /\ NoRequiredFields) =>
        IF schema.extension_range_count > 0
        THEN Len(out) = 1 /\ out[1].test = "extensionsAreInitialized"
        ELSE out = <<>>

\* C16 witness: isInitialized() of a type with extension ranges, a message
\* field and a scalar field, and nothing required in reach.
C16_Witness ==
    /\ gop = "GenerateIsInitialized"
    /\ NoRequiredFields
    /\ \E fd \in SchemaFields : fd.type = "message" /\ fd.label = "optional"
    /\ \E fd \in SchemaFields : fd.type = "int32"
    /\ schema.extension_range_count = 1
    /\ Len(out) = 1

\* The places of the recursions into the validation of a field's value.
RecursionsFor(fd) ==
    {j \in DOMAIN out : out[j].test = "isInitialized" /\ out[j].field = fd.name}

\* C18 as stated: for a required singular message field isInitialized()
\* always holds a recursion into the value's validation, with no presence test
\* around it.
C18_Original ==
    gop = "GenerateIsInitialized" =>
        \A fd \in SchemaFields :
            (fd.label = "required" /\ fd.type = "message") =>
                \E j \in RecursionsFor(fd) : out[j].guard = "none"

\* C18: for a required singular message field whose message type may hold
\* required fields isInitialized() holds one recursion into the value's
\* validation, with no presence test around it and after the test that the
\* field is set; when a required field is not reachable from the message
\* type it holds no recursion for the field, only that test.
C18_RequiredMessageRecursion ==
    gop = "GenerateIsInitialized" =>
        \A fd \in SchemaFields :
            (fd.label = "required" /\ fd.type = "message") =>
                /\ \E j \in DOMAIN out :
                       out[j].test = "has" /\ out[j].field = fd.name
                /\ IF HasRequiredFields(fd.message_type)
                   THEN /\ Cardinality(RecursionsFor(fd)) = 1
                        /\ \A j \in RecursionsFor(fd) :
                               /\ out[j].guard = "none"
                               /\ \E k \in 1..(j - 1) :
                                      /\ out[k].test = "has"
                                      /\ out[k].field = fd.name
                   ELSE RecursionsFor(fd) = {}

\* C18 witness: isInitialized() of a type with a required message field that
\* may hold required fields and one that may not.
C18_Witness ==
    /\ gop = "GenerateIsInitialized"
    /\ \E fd \in SchemaFields :
           /\ fd.label = "required" /\ fd.type = "message"
           /\ HasRequiredFields(fd.message_type)
           /\ RecursionsFor(fd) # {}
    /\ \E fd \in SchemaFields :
           /\ fd.label = "required" /\ fd.type = "message"
           /\ ~HasRequiredFields(fd.message_type)

\* The fields that take a bit in the Builder, and in the message.
BuilderBitCount ==
    Cardinality({i \in DOMAIN schema.field :
                    GetNumBitsForBuilder(schema.field[i]) = 1})

MessageBitCount ==
    Cardinality({i \in DOMAIN schema.field :
                    GetNumBitsForMessage(schema.field[i]) = 1})

\* Whether w words of 32 bits are the fewest that hold the bits.
FewestWords(w, bits) ==
    /\ w >= 0
    /\ w * 32 >= bits
    /\ (w - 1) * 32 < bits

\* C19: the presence words printed for the Builder are ceil(B / 32) and the
\* words printed for the message ceil(M / 32), B and M being the bits of all
\* fields on the Builder's and on the message's side, each counted by itself;
\* no bits give no word.
C19_WordCounts ==
    /\ gop = "Generate" =>
           /\ FewestWords(Len(out), BuilderBitCount)
           /\ BuilderBitCount = 0 => out = <<>>
    /\ gop = "GenerateCommonBuilderMethods" =>
           /\ FewestWords(Len(out.from), BuilderBitCount)
           /\ FewestWords(Len(out.to), MessageBitCount)
           /\ BuilderBitCount = 0 => out.from = <<>>
           /\ MessageBitCount = 0 => out.to = <<>>

\* C19 witness: buildPartial() of a type whose fields take more than one word
\* in the Builder and exactly one full word in the message.
C19_Witness ==
    /\ gop = "GenerateCommonBuilderMethods"
    /\ BuilderBitCount > 32
    /\ MessageBitCount = 32
    /\ Len(out.from) = 2
    /\ Len(out.to) = 1

ParseSchemas ==
    {ScenarioSchema,
     MessageSpec(<<Kind("required", "int32", "", "", FALSE, 1),
                   Kind("optional", "message", "Leaf", "", FALSE, 1)>>,
                 "desc", 1)}

\* The cases GenerateBuilderFieldParsingCases prints into the switch of each
\* of these types.
DispatchTables == [desc \in ParseSchemas |-> BuilderFieldParsingCases(desc)]

DispatchTable(desc) == DispatchTables[desc]

CaseTagsOf ==
    [desc \in ParseSchemas |->
        {DispatchTables[desc][j].tag : j \in DOMAIN DispatchTables[desc]}]

CaseTags(desc) == CaseTagsOf[desc]

\* The case of a tag, as its place in the switch.
CaseOf(desc, t) ==
    CHOOSE j \in DOMAIN DispatchTable(desc) : DispatchTable(desc)[j].tag = t

\* A tag of a field number the message type does not declare.
UnknownTag(desc) == static_cast_int32(MakeTag(Len(desc.field) + 1, 0))

\* What readTag() can return on a stream: a tag with a case, a tag without,
\* and 0 where a limit is reached before the end of the stream.
StreamTags(desc) == {0, UnknownTag(desc)} \cup CaseTags(desc)

Streams(desc) == SeqsUpTo(StreamTags(desc), MaxLen + 2)

\* What a call into the runtime can throw.
Throwables == {"InvalidProtocolBufferException", "IOException"}

\* One call of the method: what was called, on which tag, from which case
\* of the switch (0: none), and how the call ended.
Event(c, t, j, a) == [call |-> c, tag |-> t, entry |-> j, answer |-> a]

\* The catch clause with the exception dropped instead of thrown on.
Caught_Swallowed(e) ==
    IF e = "InvalidProtocolBufferException" THEN "none" ELSE e

\* catch (InvalidProtocolBufferException e) { throw e.unwrapIOException(); }
\* Any other exception passes the catch clause as it is.
Caught(e) ==
    IF e = "InvalidProtocolBufferException" THEN "IOException" ELSE e

\* The way out with the change told only when the loop ended well.
Leave_NotifiesOnSuccess(evs, e) ==
    /\ events' = evs \o
                 (IF e = "InvalidProtocolBufferException"
                  THEN <<Event("unwrapIOException", 0, 0, Caught(e))>>
                  ELSE <<>>) \o
                 (IF e = "none" THEN <<Event("onChanged", 0, 0, "")>>
                  ELSE <<>>)
    /\ exception' = Caught(e)
    /\ ppc' = IF Caught(e) = "none" THEN "returned" ELSE "thrown"
    /\ UNCHANGED merged

\* The way out of the try statement, with e the exception thrown in it
\* ("none": the loop ended): catch, then finally { onChanged(); }, then
\* return this or the exception. Neither clause touches a field.
Leave(evs, e) ==
    /\ events' = evs \o
                 (IF e = "InvalidProtocolBufferException"
                  THEN <<Event("unwrapIOException", 0, 0, Caught(e))>>
                  ELSE <<>>) \o
                 <<Event("onChanged", 0, 0, "")>>
    /\ exception' = Caught(e)
    /\ ppc' = IF Caught(e) = "none" THEN "returned" ELSE "thrown"
    /\ UNCHANGED merged

\* The default case that never ends the loop.
DoneAfterUnknown_Never(answer) == FALSE

\* if (!super.parseUnknownField(input, extensionRegistry, tag)) done = true;
DoneAfterUnknown(answer) == answer = "false"

\* The head of the method: the null check, then boolean done = false.
MergeFromInput(extensionRegistry) ==
    /\ ppc = "idle"
    /\ IF extensionRegistry = "null"
       THEN /\ ppc' = "thrown"
            /\ exception' = "NullPointerException"
       ELSE /\ ppc' = "while"
            /\ exception' = "none"
    /\ done' = FALSE
    /\ UNCHANGED <<input, tag, events, merged, ivars, kvars, schema, gop, out,
                   cvars, bvars, avars>>

\* while (!done) { int tag = input.readTag();
ReadTag(outcome) ==
    /\ ppc = "while"
    /\ ~done
    /\ IF outcome = "tag"
       THEN /\ tag' = IF input = <<>> THEN 0 ELSE Head(input)
            /\ input' = IF input = <<>> THEN <<>> ELSE Tail(input)
            /\ events' = Append(events, Event("readTag", tag', 0, "tag"))
            /\ ppc' = "switch"
            /\ UNCHANGED <<exception, merged>>
       ELSE /\ Leave(Append(events, Event("readTag", 0, 0, outcome)), outcome)
            /\ UNCHANGED <<input, tag>>
    /\ UNCHANGED <<done, ivars, kvars, schema, gop, out, cvars, bvars, avars>>

\* case 0: done = true; break;  and with it the end of the loop.
Case0 ==
    /\ ppc = "switch"
    /\ tag = 0
    /\ done' = TRUE
    /\ Leave(events, "none")
    /\ UNCHANGED <<input, tag, ivars, kvars, schema, gop, out,
                   cvars, bvars, avars>>

\* The parsing code a field generator prints for a case, when it completes:
\* it stores what it read into the field of the Builder.
GenerateBuilderParsingCode(fields, field) == Append(fields, field)

\* case <tag>: { <parsing code of the field> break; }
FieldCase(outcome) ==
    /\ ppc = "switch"
    /\ tag \in CaseTags(schema)
    /\ LET evs == Append(events,
                         Event("case", tag, CaseOf(schema, tag), outcome))
       IN  IF outcome = "ok"
           THEN /\ events' = evs
                /\ merged' = GenerateBuilderParsingCode(
                                  merged,
                                  DispatchTable(schema)[CaseOf(schema, tag)].field)
                /\ ppc' = "while"
                /\ UNCHANGED exception
           ELSE Leave(evs, outcome)
    /\ UNCHANGED <<input, tag, done, ivars, kvars, schema, gop, out,
                   cvars, bvars, avars>>

\* default: { if (!super.parseUnknownField(...)) { done = true; } break; }
DefaultCase(answer) ==
    /\ ppc = "switch"
    /\ tag # 0
    /\ tag \notin CaseTags(schema)
    /\ LET evs == Append(events, Event("parseUnknownField", tag, 0, answer))
       IN  IF answer \in Throwables
           THEN /\ Leave(evs, answer)
                /\ UNCHANGED done
           ELSE /\ done' = DoneAfterUnknown(answer)
                /\ IF done'
                   THEN Leave(evs, "none")
                   ELSE /\ events' = evs
                        /\ ppc' = "while"
                        /\ UNCHANGED <<exception, merged>>
    /\ UNCHANGED <<input, tag, ivars, kvars, schema, gop, out,
                   cvars, bvars, avars>>

ParseInit ==
    /\ schema \in ParseSchemas
    /\ gop = "idle"
    /\ out = <<>>
    /\ input \in Streams(schema)
    /\ ppc = "idle"
    /\ tag = 0
    /\ done = FALSE
    /\ exception = "none"
    /\ events = <<>>
    /\ merged = <<>>
    /\ ValidateUnused
    /\ WorkersUnused
    /\ ClosureUnused
    /\ BuilderUnused
    /\ AssocUnused

ParseNext ==
    \/ \E extensionRegistry \in {"null", "registry"} :
           MergeFromInput(extensionRegistry)
    \/ \E outcome \in {"tag"} \cup Throwables : ReadTag(outcome)
    \/ Case0
    \/ \E outcome \in {"ok"} \cup Throwables : FieldCase(outcome)
    \/ \E answer \in {"true", "false"} \cup Throwables : DefaultCase(answer)

ParseSpec == ParseInit /\ [][ParseNext]_vars

(***************************************************************************)
(* Properties of the generated mergeFrom(CodedInputStream, registry)       *)
(***************************************************************************)

\* The calls of readTag() that returned a tag.
TagsRead == {i \in DOMAIN events : /\ events[i].call = "readTag"
                                   /\ events[i].answer = "tag"}

\* No tag is read after the call at place i.
NoReadAfter(i) ==
    \A j \in DOMAIN events : j > i => events[j].call # "readTag"

\* The loop goes on after the call at place i: it is back at its head, or
\* has read the next tag since.
LoopContinuesAfter(i) ==
    IF i = Len(events)
    THEN ppc = "while" /\ ~done /\ exception = "none"
    ELSE events[i + 1].call = "readTag"

\* The method has returned to its caller after the call at place i, with
\* nothing but onChanged() in between.
ReturnedAfter(i) ==
    /\ ppc = "returned"
    /\ exception = "none"
    /\ Len(events) = i + 1
    /\ events[i + 1].call = "onChanged"

\* C14: the loop ends with the method returning when readTag() gives 0, and
\* no tag is read after that; a tag without a case goes to parseUnknownField
\* and the loop goes on exactly when that answers true, and ends with the
\* method returning, not throwing, when it answers false; a tag with a case
\* runs the code of that case, and the loop goes on when the code completes.
C14_DecodeLoop ==
    \A i \in DOMAIN events :
        LET e == events[i]
        IN  /\ (i \in TagsRead /\ e.tag = 0) =>
                   /\ NoReadAfter(i)
                   /\ IF i = Len(events) THEN ppc = "switch"
                      ELSE ReturnedAfter(i)
            /\ (i \in TagsRead /\ e.tag # 0 /\ e.tag \notin CaseTags(schema)) =>
                   IF i = Len(events) THEN ppc = "switch"
                   ELSE /\ events[i + 1].call = "parseUnknownField"
                        /\ events[i + 1].tag = e.tag
            /\ (i \in TagsRead /\ e.tag \in CaseTags(schema)) =>
                   IF i = Len(events) THEN ppc = "switch"
                   ELSE /\ events[i + 1].call = "case"
                        /\ events[i + 1].entry \in DOMAIN DispatchTable(schema)
                        /\ DispatchTable(schema)[events[i + 1].entry].tag = e.tag
            /\ e.call = "parseUnknownField" =>
                   /\ (e.answer = "true") <=> LoopContinuesAfter(i)
                   /\ (e.answer = "false") => ReturnedAfter(i) /\ NoReadAfter(i)
            /\ (e.call = "case" /\ e.answer = "ok") => LoopContinuesAfter(i)

\* A parse that went on after an unknown field and after a known one, and
\* returned on a 0 met before the end of the stream.
C14_Witness ==
    /\ ppc = "returned"
    /\ input # <<>>
    /\ Len(events) >= 6
    /\ events[2].call = "parseUnknownField" /\ events[2].answer = "true"
    /\ events[4].call = "case" /\ events[4].answer = "ok"
    /\ events[5].call = "readTag" /\ events[5].tag = 0

\* C15: when the code of a case throws for malformed input
\* (InvalidProtocolBufferException), the method reads no further tag and
\* ends by throwing to its caller; it does not return.
C15_MalformedKnownField ==
    \A i \in DOMAIN events :
        (/\ events[i].call = "case"
         /\ events[i].answer = "InvalidProtocolBufferException") =>
            /\ NoReadAfter(i)
            /\ ppc = "thrown"
            /\ exception # "none"
            /\ ppc # "returned"
            /\ events[Len(events)].call = "onChanged"

\* A parse that read a known field well, then met a malformed one with
\* more of the stream behind it.
C15_Witness ==
    /\ ppc = "thrown"
    /\ input # <<>>
    /\ \E i \in DOMAIN events :
           /\ events[i].call = "case"
           /\ events[i].answer = "InvalidProtocolBufferException"
           /\ \E j \in 1..(i - 1) :
                  events[j].call = "case" /\ events[j].answer = "ok"

(***************************************************************************)
(* java/message_builder.cc: the isInitialized() that GenerateIsInitialized *)
(* prints, run on a value                                                  *)
(***************************************************************************)

\* The kinds of field of the message types whose values are validated.
ValidateKinds ==
    {Kind("required", "int32", "", "", FALSE, 1),
     Kind("optional", "int32", "", "", FALSE, 1),
     Kind("optional", "message", "Free", "", FALSE, 1),
     Kind("optional", "message", "Leaf", "", FALSE, 1),
     Kind("optional", "message", "Wrap", "", FALSE, 1),
     Kind("required", "message", "Leaf", "", FALSE, 1),
     Kind("required", "message", "Free", "", FALSE, 1),
     Kind("repeated", "message", "Leaf", "", FALSE, 0),
     Kind("repeated", "message", "Wrap", "", FALSE, 0),
     Kind("repeated", "message", "LeafEntry", "", FALSE, 0),
     Kind("optional", "message", "Node", "", FALSE, 1),
     Kind("optional", "message", "Link", "", FALSE, 1)}

\* message All { required int32 n = 1; optional Leaf o = 2;
\*               repeated Leaf r = 3; map<int32, Leaf> m = 4;
\*               required Leaf q = 5; extensions ...; }
AllSchema ==
    MessageSpec(<<Kind("required", "int32", "", "", FALSE, 1),
                  Kind("optional", "message", "Leaf", "", FALSE, 1),
                  Kind("repeated", "message", "Leaf", "", FALSE, 0),
                  Kind("repeated", "message", "LeafEntry", "", FALSE, 0),
                  Kind("required", "message", "Leaf", "", FALSE, 1)>>,
                "asc", 1)

\* The message types validated: one or two fields of these kinds, with and
\* without extension ranges, and the type with all of them.
ValidateSchemas ==
    {MessageSpec(ks, "asc", ext) :
        ks \in {<<k>> : k \in ValidateKinds} \cup
               (ValidateKinds \X ValidateKinds),
        ext \in {0, 1}}
    \cup {AllSchema}

\* The message type of the values a map field holds.
MapValueType(entry) ==
    LET fields == TypeDescriptor(entry).field
    IN  fields[CHOOSE i \in DOMAIN fields : fields[i].name = "value"]
            .message_type

\* The values of a message type with messages nested to a depth: per field,
\* in declaration order, whether it is set and the messages it holds.
RECURSIVE ValuesOfFields(_, _)
ValuesOfField(fd, depth) ==
    IF fd.type # "message"
    THEN IF fd.label = "repeated" THEN {[has |-> FALSE, values |-> <<>>]}
         ELSE {[has |-> b, values |-> <<>>] : b \in BOOLEAN}
    ELSE IF depth = 0
    THEN {[has |-> FALSE, values |-> <<>>]}
    ELSE IF fd.label # "repeated"
    THEN {[has |-> FALSE, values |-> <<>>]} \cup
         {[has |-> TRUE, values |-> <<v>>] :
             v \in ValuesOfFields(TypeDescriptor(fd.message_type).field,
                                  depth - 1)}
    ELSE LET elem == IF IsMapEntry(fd.message_type)
                     THEN MapValueType(fd.message_type)
                     ELSE fd.message_type
         IN  {[has |-> FALSE, values |-> vs] :
                 vs \in SeqsUpTo(ValuesOfFields(TypeDescriptor(elem).field,
                                                depth - 1),
                                 MaxLen)}

ValuesOfFields(fields, depth) ==
    IF fields = <<>> THEN {<<>>}
    ELSE {<<st>> \o rest : st \in ValuesOfField(Head(fields), depth),
                           rest \in ValuesOfFields(Tail(fields), depth)}

\* The values of a message type with what extensionsAreInitialized()
\* answers on them.
ValuesOf(desc) ==
    {[field |-> m, extensionsAreInitialized |-> e] :
        m \in ValuesOfFields(desc.field, MaxDepth),
        e \in IF desc.extension_range_count > 0 THEN BOOLEAN ELSE {TRUE}}

\* get$name$(): the message a singular field holds, the default instance
\* if it is not set.
DefaultValue(t) ==
    [i \in DOMAIN TypeDescriptor(t).field |->
        [has |-> FALSE, values |-> <<>>]]

Get(fd, st) == IF st.has THEN st.values[1] ELSE DefaultValue(fd.message_type)

\* The place in the declaration of the field a check names.
FieldAt(desc, name) ==
    CHOOSE i \in DOMAIN desc.field : desc.field[i].name = name

\* The printed isInitialized() of a message type on a value: the checks in
\* the order printed, return false at the first that fails, return true
\* after the last.  CheckPasses is one of the printed if statements.
RECURSIVE FirstFailure(_, _, _)
CheckPasses(desc, m, e, ck) ==
    CASE ck.test = "has" -> m[FieldAt(desc, ck.field)].has
      [] ck.test = "extensionsAreInitialized" -> e
      [] ck.test = "isInitialized" ->
           LET i  == FieldAt(desc, ck.field)
               fd == desc.field[i]
               elem == IF IsMapEntry(fd.message_type)
                       THEN MapValueType(fd.message_type)
                       ELSE fd.message_type
           IN  CASE ck.guard = "none" ->
                      FirstFailure(TypeDescriptor(fd.message_type),
                                   Get(fd, m[i]), TRUE) = 0
                 [] ck.guard = "has" ->
                      m[i].has =>
                          FirstFailure(TypeDescriptor(fd.message_type),
                                       Get(fd, m[i]), TRUE) = 0
                 [] OTHER ->
                      \A k \in DOMAIN m[i].values :
                          FirstFailure(TypeDescriptor(elem),
                                       m[i].values[k], TRUE) = 0

FirstFailure(desc, m, e) ==
    LET checks == IsInitializedChecks(desc)
        failing == {j \in DOMAIN checks : ~CheckPasses(desc, m, e, checks[j])}
    IN  IF failing = {} THEN 0
        ELSE CHOOSE j \in failing : \A k \in failing : j <= k

\* isInitialized() called on the value.
IsInitialized ==
    /\ valid.result = "none"
    /\ LET at == FirstFailure(schema, message.field,
                              message.extensionsAreInitialized)
       IN  valid' = [result |-> IF at = 0 THEN "true" ELSE "false",
                     at |-> at]
    /\ UNCHANGED <<message, schema, gop, out, pvars, kvars,
                   cvars, bvars, avars>>

ValidateInit ==
    /\ schema \in ValidateSchemas
    /\ gop = "idle"
    /\ out = <<>>
    /\ message \in ValuesOf(schema)
    /\ valid = [result |-> "none", at |-> 0]
    /\ ParseUnused
    /\ WorkersUnused
    /\ ClosureUnused
    /\ BuilderUnused
    /\ AssocUnused

ValidateNext == IsInitialized

ValidateSpec == ValidateInit /\ [][ValidateNext]_vars

(***************************************************************************)
(* Properties of the generated isInitialized()                             *)
(***************************************************************************)

\* A required field of the value is not set.
RequiredUnset ==
    \E i \in DOMAIN schema.field :
        schema.field[i].label = "required" /\ ~message.field[i].has

\* The messages the value holds in a field: the message of a singular field
\* that is set, the elements of a repeated field, the values of a map.
PresentIn(i) ==
    {message.field[i].values[k] : k \in DOMAIN message.field[i].values}

\* The message type of the messages a field holds.
HeldType(fd) ==
    IF IsMapEntry(fd.message_type) THEN MapValueType(fd.message_type)
    ELSE fd.message_type

\* A message the value holds fails the isInitialized() of its own type.
NestedInvalid ==
    \E i \in DOMAIN schema.field :
        /\ schema.field[i].type = "message"
        /\ \E v \in PresentIn(i) :
               FirstFailure(TypeDescriptor(HeldType(schema.field[i])),
                            v, TRUE) # 0

ExtensionsInvalid ==
    schema.extension_range_count > 0 /\ ~message.extensionsAreInitialized

FieldOfCase(j) == schema.field[out[j].field]

\* C21: the cases of the switch are printed by ascending field number,
\* whatever the order of declaration, and the case of the wire type of a
\* packable field is followed at once by its length-delimited case.
C21_DispatchOrder ==
    gop = "GenerateBuilderFieldParsingCases" =>
        /\ LET number == [j \in DOMAIN out |-> FieldOfCase(j).number]
           IN  \A j, k \in DOMAIN out : j < k => number[j] <= number[k]
        /\ \A fd \in SchemaFields :
               is_packable(fd) =>
                   \E j \in DOMAIN out :
                       /\ j + 1 \in DOMAIN out
                       /\ out[j] = BuilderFieldParsingCase(fd)
                       /\ out[j + 1] = BuilderPackedFieldParsingCase(fd)
                       /\ out[j].tag =
                              static_cast_int32(
                                  MakeTag(fd.number,
                                          WireTypeForFieldType(fd.type)))
                       /\ out[j + 1].tag =
                              static_cast_int32(
                                  MakeTag(fd.number, WIRETYPE_LENGTH_DELIMITED))

\* The cases of a type that declares a packable field with the higher number
\* before a field with the lower number.
C21_Witness ==
    /\ gop = "GenerateBuilderFieldParsingCases"
    /\ Len(schema.field) = 2
    /\ schema.field[1].number > schema.field[2].number
    /\ is_packable(schema.field[1])
    /\ Len(out) >= 3
    /\ out[1].field = schema.field[2].name

\* The tags the cases of a field are made for, as the uint32_t values.
NaturalTag(fd) == MakeTag(fd.number, WireTypeForFieldType(fd.type))

PackedTag(fd) == MakeTag(fd.number, WIRETYPE_LENGTH_DELIMITED)

TagsOfField(fd) ==
    {NaturalTag(fd)} \cup (IF is_packable(fd) THEN {PackedTag(fd)} ELSE {})

\* The field numbers of the message type are pairwise distinct and in
\* 1 .. kMaxNumber.
DistinctNumbers ==
    /\ \A i, j \in DOMAIN schema.field :
           i # j => schema.field[i].number # schema.field[j].number
    /\ \A fd \in SchemaFields : fd.number \in 1..kMaxNumber

\* C28: for a message type with pairwise distinct field numbers of at least
\* 1, the tags of the cases are pairwise distinct and none is 0, the tag of
\* end of input; the length-delimited tag of a packable field is the tag of
\* the wire type of no field; and the case labels, the tags read as signed
\* 32-bit numbers, are pairwise distinct and not 0 either.
C28_DistinctTags ==
    (gop = "GenerateBuilderFieldParsingCases" /\ DistinctNumbers) =>
        /\ \A fd, gd \in SchemaFields :
               fd # gd => TagsOfField(fd) \cap TagsOfField(gd) = {}
        /\ \A fd \in SchemaFields :
               /\ Uint32(0, 0) \notin TagsOfField(fd)
               /\ is_packable(fd) =>
                      \A gd \in SchemaFields : PackedTag(fd) # NaturalTag(gd)
        /\ Len(out) = SumOver([i \in DOMAIN schema.field |->
                                  Cardinality(TagsOfField(schema.field[i]))],
                              1, Len(schema.field))
        /\ \A j \in DOMAIN out :
               /\ out[j].tag # 0
               /\ out[j].tag \in {static_cast_int32(u) :
                                     u \in TagsOfField(FieldOfCase(j))}
        /\ \A j, k \in DOMAIN out : j # k => out[j].tag # out[k].tag

\* The cases of a type with a packable field and another field, both with
\* numbers from 2^28 on, whose labels are printed as negative numbers.
C28_Witness ==
    /\ gop = "GenerateBuilderFieldParsingCases"
    /\ DistinctNumbers
    /\ Len(schema.field) = 2
    /\ \E fd \in SchemaFields : is_packable(fd) /\ fd.number = kMaxNumber
    /\ \E fd \in SchemaFields : fd.number = 2^28
    /\ Len(out) >= 3
    /\ \A j \in DOMAIN out : out[j].tag < 0

(***************************************************************************)
(* Further properties of the Builder                                       *)
(***************************************************************************)

\* Where the merging code of a field stands in mergeFrom(other): the place of
\* its statement, and for a oneof member the place of its case in the switch
\* of the oneof.
MergePlace(fd) ==
    LET acts == MergeActions(trace)
        stmt == IF IsRealOneof(fd) THEN <<"oneof", fd.containing_oneof>>
                ELSE <<"field", fd.name>>
        members == OneofFields(descriptor, fd.containing_oneof)
    IN  <<CHOOSE i \in DOMAIN acts : acts[i] = stmt,
          IF IsRealOneof(fd)
          THEN CHOOSE j \in DOMAIN members : members[j].name = fd.name
          ELSE 0>>

MergedBefore(f, g) ==
    \/ MergePlace(f)[1] < MergePlace(g)[1]
    \/ MergePlace(f)[1] = MergePlace(g)[1] /\ MergePlace(f)[2] < MergePlace(g)[2]

\* C22 as stated: of two fields the one declared first has its merging code
\* first, also when it is a oneof member and the other is not.
C22_Original ==
    (op = "mergeFrom" /\ other.ref # "default") =>
        \A i, j \in DOMAIN Descriptor(descriptor).field :
            i < j => MergedBefore(Descriptor(descriptor).field[i],
                                  Descriptor(descriptor).field[j])

\* C22: the merging code of the fields outside oneofs stands in declaration
\* order, followed by the switches of the oneofs; the members of one oneof
\* have their cases in declaration order; so a field outside a oneof is
\* merged before every oneof member, also before one declared ahead of it.
C22_MergeDeclarationOrder ==
    (op = "mergeFrom" /\ other.ref # "default") =>
        \A i, j \in DOMAIN Descriptor(descriptor).field :
            LET f == Descriptor(descriptor).field[i]
                g == Descriptor(descriptor).field[j]
            IN  /\ (i < j /\ ~IsRealOneof(f) /\ ~IsRealOneof(g)) =>
                       MergedBefore(f, g)
                /\ (i < j /\ IsRealOneof(f)
                          /\ f.containing_oneof = g.containing_oneof) =>
                       MergedBefore(f, g)
                /\ (~IsRealOneof(f) /\ IsRealOneof(g)) => MergedBefore(f, g)

\* A merge into a Builder of the type that declares a oneof member ahead of
\* a field outside the oneof, from a source with both set.
C22_Witness ==
    /\ descriptor = "Choice"
    /\ op = "mergeFrom"
    /\ other.ref = "object"
    /\ other.m.oneofCase["o"] = 1
    /\ MergedBefore(FieldNamed("Choice", "s"), FieldNamed("Choice", "a"))
    /\ MergedBefore(FieldNamed("Choice", "a"), FieldNamed("Choice", "b"))

(***************************************************************************)
(* Further properties of the closure                                       *)
(***************************************************************************)

\* An entry of the memo table stays as it is.
EntriesKept ==
    \A f \in DOMAIN deps_info_cache :
        /\ f \in DOMAIN deps_info_cache'
        /\ deps_info_cache'[f] = deps_info_cache[f]

\* A step inserts at most the entry of the file whose loop just ended, and
\* only when the file has none.
InsertsOnce ==
    \A f \in DOMAIN deps_info_cache' \ DOMAIN deps_info_cache :
        /\ stack # <<>>
        /\ Head(stack).file = f
        /\ DOMAIN deps_info_cache' = DOMAIN deps_info_cache \cup {f}

\* A public call on a file with an entry returns the entry with no
\* activation of the loop, and so does a call the loop makes on a dependency
\* with an entry: no new activation, the entry folded into the caller.
HitReturnsEntry ==
    /\ (cpc = "idle" /\ cpc' # "idle"
                     /\ requested' \in DOMAIN deps_info_cache) =>
           /\ stack' = <<>>
           /\ ret' = deps_info_cache[requested']
           /\ cpc' = "sort"
    /\ (cpc = "run" /\ stack # <<>>
           /\ Head(stack).i <= Len(dependency[Head(stack).file])
           /\ dependency[Head(stack).file][Head(stack).i]
                  \in DOMAIN deps_info_cache) =>
           LET dep == dependency[Head(stack).file][Head(stack).i]
           IN  /\ Len(stack') = Len(stack)
               /\ Head(stack') = FoldDep(Head(stack), dep, deps_info_cache[dep])

\* The entry a step inserts is the one a computation from an empty memo
\* table yields. The table starts empty and keeps its entries, so this holds
\* of every entry it ever has.
InsertsFresh ==
    \A f \in DOMAIN deps_info_cache' \ DOMAIN deps_info_cache :
        deps_info_cache'[f] = FreshEntry(f)

\* C23: over any sequence of calls the entry of a file is inserted into the
\* memo table at most once and is neither changed nor removed afterwards; a
\* call on a file with an entry returns the entry without a visit of its
\* dependencies; and the entry of a file is the one a computation from an
\* empty memo table yields, whatever files were asked for before.
C23_Memoization ==
    [][EntriesKept /\ InsertsOnce /\ InsertsFresh /\ HitReturnsEntry]_vars

\* A second call on a file was answered from the memo table, which holds
\* entries of files asked for before that the file does not depend on.
C23_Witness ==
    /\ cpc = "sort"
    /\ stack = <<>>
    /\ requested \in DOMAIN deps_info_cache
    /\ dependency[requested] # <<>>
    /\ ret = deps_info_cache[requested]
    /\ \E g \in DOMAIN deps_info_cache :
           g \notin TransDeps(requested) \cup {requested}

\* The activation whose loop over the dependencies has ended and whose entry
\* is about to be stored.
LoopEnded ==
    /\ cpc = "run"
    /\ stack # <<>>
    /\ Head(stack).i > Len(dependency[Head(stack).file])

\* C24: when the code takes the fast path, for a file with an empty to_prune
\* or with exactly one dependency, the collector it stores unpruned equals
\* the collector with every element of to_prune removed.
C24_FastPathNoOp ==
    (LoopEnded /\ FastPath(Head(stack))) =>
        /\ Head(stack).min_deps_collector = PruneMinDeps(Head(stack))
        /\ MakeEntry(Head(stack)).min_deps = PruneMinDeps(Head(stack))

\* A file with exactly one dependency, a to_prune that is not empty and a
\* collector that is not empty, about to be stored by the fast path.
C24_Witness ==
    /\ LoopEnded
    /\ Len(dependency[Head(stack).file]) = 1
    /\ Head(stack).to_prune # {}
    /\ Head(stack).min_deps_collector # {}

\* The direct dependencies of a file, and those that define extensions.
DirectDeps(f) == Range(dependency[f])

ExtDeps(f) == {d \in DirectDeps(f) : has_ext[d]}

\* The min-set candidate of a file, from the cached entries of its
\* dependencies: the direct dependencies that define extensions and the
\* min_deps of those that define none.
MinCandidate(f) ==
    ExtDeps(f) \cup UNION {MinDeps(d) : d \in DirectDeps(f) \ ExtDeps(f)}

\* The prune-set as the claim has it: the min_deps of the direct
\* dependencies that define extensions.
ClaimedPruneSet(f) == UNION {MinDeps(d) : d \in ExtDeps(f)}

\* The prune-set with what the direct dependencies cover as well.
PruneSet(f) ==
    ClaimedPruneSet(f) \cup UNION {CoveredDeps(d) : d \in DirectDeps(f)}

\* The files whose entry is cached together with those of all they import.
Settled == {f \in DOMAIN deps_info_cache :
               DirectDeps(f) \subseteq DOMAIN deps_info_cache}

\* C25 as stated: the prune-set of a file is exactly the min_deps of its
\* direct dependencies that define extensions, and min_deps is the min-set
\* candidate without the files of that prune-set.
C25_Original ==
    /\ LoopEnded => Head(stack).to_prune = ClaimedPruneSet(Head(stack).file)
    /\ \A f \in Settled : MinDeps(f) = MinCandidate(f) \ ClaimedPruneSet(f)

\* C25: the prune-set of a file holds the min_deps of its direct
\* dependencies that define extensions and the covered_deps of all its
\* direct dependencies; the min-set candidate holds the direct dependencies
\* that define extensions and the min_deps of those that define none; and
\* the cached min_deps is the candidate without the files of the prune-set,
\* in every entry the code caches: in each as it is inserted, and entries
\* stay as they are.
C25_PruneSet ==
    /\ [](LoopEnded =>
             /\ Head(stack).to_prune = PruneSet(Head(stack).file)
             /\ Head(stack).min_deps_collector
                    = MinCandidate(Head(stack).file))
    /\ [][/\ EntriesKept
          /\ \A f \in DOMAIN deps_info_cache' \ DOMAIN deps_info_cache :
                 (/\ f \in Settled
                  /\ MinDeps(f) = MinCandidate(f) \ PruneSet(f)
                  /\ deps_info_cache[f].has_extensions = has_ext[f])']_vars

\* The entry of a file whose candidate loses a file that only the
\* covered_deps of a dependency bring into the prune-set.
C25_Witness ==
    \E f \in DOMAIN deps_info_cache :
        /\ MinCandidate(f) \cap PruneSet(f) # {}
        /\ MinCandidate(f) \cap ClaimedPruneSet(f) = {}
        /\ MinDeps(f) # {}

\* C29: in every cached entry min_deps and covered_deps share no file;
\* every file of min_deps defines extensions and is a direct or indirect
\* dependency of the entry's file, not the file itself; and the min_deps and
\* covered_deps of every file of min_deps lie within the entry's
\* covered_deps.
C29_EntryInvariant ==
    \A f \in DOMAIN deps_info_cache :
        /\ MinDeps(f) \cap CoveredDeps(f) = {}
        /\ \A m \in MinDeps(f) :
               /\ has_ext[m]
               /\ deps_info_cache[m].has_extensions
               /\ m \in TransDeps(f)
               /\ m # f
               /\ MinDeps(m) \subseteq CoveredDeps(f)
               /\ CoveredDeps(m) \subseteq CoveredDeps(f)

\* An entry whose min_deps holds a file that is an indirect dependency only
\* and has a min_deps of its own, which the entry's covered_deps holds.
C29_Witness ==
    \E f \in DOMAIN deps_info_cache :
        \E m \in MinDeps(f) :
            /\ m \notin DirectDeps(f)
            /\ MinDeps(m) # {}
            /\ CoveredDeps(f) # {}

(***************************************************************************)
(* objectivec/file.cc: two workers calling                                 *)
(* CollectMinimalFileDepsContainingExtensions on one CommonState           *)
(***************************************************************************)

Workers == {"w1", "w2"}

OtherWorker(w) == CHOOSE v \in Workers : v # w

\* Import graphs in which files share dependencies: the scenario graph (3
\* imports 1 and 2, 2 imports 1) and a diamond (4 imports 2 and 3, which both
\* import 1).
SharedGraphs ==
    {[f \in Files |-> CASE f = 2 -> <<1>>
                        [] f = 3 -> <<1, 2>>
                        [] OTHER -> <<>>],
     [f \in Files |-> CASE f = 2 -> <<1>>
                        [] f = 3 -> <<1>>
                        [] f = 4 -> <<2, 3>>
                        [] OTHER -> <<>>]}

IdleWorker ==
    [pc |-> "idle", requested |-> 0, stack |-> <<>>, ret |-> NoEntry,
     result |-> <<>>]

\* The driver that lets any call start whatever the other worker does.
MayEnter_Unguarded(w) == TRUE

\* The driver's serialization: a worker's call starts only when no other
\* call is running.  The code itself takes no lock.
MayEnter(w) == serialized => lock = "none"

\* The worker goes on with the value an activation returns: the caller's
\* loop folds it, or the public function has its entry.
WorkerDeliver(w, rest, dep, entry) ==
    IF rest = <<>>
    THEN [workers[w] EXCEPT !.stack = <<>>, !.ret = entry, !.pc = "return"]
    ELSE [workers[w] EXCEPT
             !.stack = <<FoldDep(Head(rest), dep, entry)>> \o Tail(rest)]

\* A worker calls the public function: the lookup in deps_info_cache of the
\* internal function hits or misses.
Request(w, file) ==
    /\ workers[w].pc = "idle"
    /\ MayEnter(w)
    /\ lock' = IF serialized THEN w ELSE lock
    /\ workers' =
           [workers EXCEPT ![w] =
               IF file \in DOMAIN deps_info_cache
               THEN [@ EXCEPT !.requested = file, !.pc = "return",
                              !.ret = deps_info_cache[file]]
               ELSE [@ EXCEPT !.requested = file, !.pc = "run",
                              !.stack = <<NewFrame(file)>>]]
    /\ UNCHANGED <<deps_info_cache, serialized, inserts, raced>>
    /\ UNCHANGED <<dependency, has_ext, stack, cpc, requested, ret, result>>
    /\ UNCHANGED <<bvars, avars, svars, pvars, ivars>>

\* The loop of a worker's activation calls the function on the next
\* dependency: a hit is folded, a miss starts an activation.
WorkerCallDep(w) ==
    /\ workers[w].pc = "run"
    /\ LET fr == Head(workers[w].stack)
       IN  /\ fr.i <= Len(dependency[fr.file])
           /\ LET dep == dependency[fr.file][fr.i]
              IN  workers' =
                      [workers EXCEPT ![w] =
                          IF dep \in DOMAIN deps_info_cache
                          THEN WorkerDeliver(w, workers[w].stack, dep,
                                             deps_info_cache[dep])
                          ELSE [@ EXCEPT !.stack = <<NewFrame(dep)>> \o @]]
    /\ UNCHANGED <<deps_info_cache, serialized, lock, inserts, raced>>
    /\ UNCHANGED <<dependency, has_ext, stack, cpc, requested, ret, result>>
    /\ UNCHANGED <<bvars, avars, svars, pvars, ivars>>

\* Whether an insert of the worker is unordered with a call of the other
\* worker: a data race on the flat_hash_map.
Unordered(w) == ~serialized /\ workers[OtherWorker(w)].pc # "idle"

\* The loop of a worker's activation is over: the entry is inserted and
\* returned.  An insert that races with the other worker has no defined
\* outcome: the table may take it or stay as it was.
WorkerInsertEntry(w, outcome) ==
    /\ workers[w].pc = "run"
    /\ outcome = "lost" => Unordered(w)
    /\ LET fr    == Head(workers[w].stack)
           entry == MakeEntry(fr)
       IN  /\ fr.i > Len(dependency[fr.file])
           /\ deps_info_cache' =
                  IF outcome = "stored"
                  THEN CacheInsert(deps_info_cache, fr.file, entry)
                  ELSE deps_info_cache
           /\ workers' =
                  [workers EXCEPT ![w] =
                      WorkerDeliver(w, Tail(workers[w].stack), fr.file,
                                    IF outcome = "stored"
                                    THEN deps_info_cache'[fr.file]
                                    ELSE entry)]
           /\ inserts' = [inserts EXCEPT ![fr.file] = @ \cup {w}]
    /\ raced' = (raced \/ Unordered(w))
    /\ UNCHANGED <<serialized, lock>>
    /\ UNCHANGED <<dependency, has_ext, stack, cpc, requested, ret, result>>
    /\ UNCHANGED <<bvars, avars, svars, pvars, ivars>>

\* The public function sorts min_deps of the entry into the vector it
\* returns; the driver lets the next call start.
WorkerReturn(w) ==
    /\ workers[w].pc = "return"
    /\ \E order \in Orders(workers[w].ret.min_deps) :
           workers' = [workers EXCEPT ![w] =
                          [@ EXCEPT !.result = SortByName(order),
                                    !.pc = "done"]]
    /\ lock' = IF lock = w THEN "none" ELSE lock
    /\ UNCHANGED <<deps_info_cache, serialized, inserts, raced>>
    /\ UNCHANGED <<dependency, has_ext, stack, cpc, requested, ret, result>>
    /\ UNCHANGED <<bvars, avars, svars, pvars, ivars>>

WorkersInit ==
    /\ dependency \in SharedGraphs
    /\ has_ext \in [Files -> BOOLEAN]
    /\ deps_info_cache = EmptyCache
    /\ stack = <<>>
    /\ cpc = "idle"
    /\ requested = 0
    /\ ret = NoEntry
    /\ result = <<>>
    /\ workers = [w \in Workers |-> IdleWorker]
    /\ serialized \in BOOLEAN
    /\ lock = "none"
    /\ inserts = [f \in Files |-> {}]
    /\ raced = FALSE
    /\ BuilderUnused
    /\ AssocUnused
    /\ GeneratorUnused
    /\ ParseUnused
    /\ ValidateUnused

WorkersNext ==
    \E w \in Workers :
        \/ \E file \in Files : Request(w, file)
        \/ WorkerCallDep(w)
        \/ \E outcome \in {"stored", "lost"} : WorkerInsertEntry(w, outcome)
        \/ WorkerReturn(w)

WorkersSpec == WorkersInit /\ [][WorkersNext]_vars

(***************************************************************************)
(* Properties of the workers                                               *)
(***************************************************************************)

\* C26: with whole calls serialized, in every interleaving of the calls of
\* two workers a file has its entry computed and inserted exactly once, the
\* entry is the one a single sequential worker computes, and so is the
\* vector each call returns; the code holds no lock of its own, the only
\* ordering is the driver's, without which an insert can run unordered with
\* the other worker's call.
C26_SerializedWorkers ==
    /\ serialized =>
           /\ ~raced
           /\ \A f \in Files :
                  IF f \in DOMAIN deps_info_cache
                  THEN /\ deps_info_cache[f] = FreshEntry(f)
                       /\ Cardinality(inserts[f]) = 1
                  ELSE inserts[f] = {}
           /\ \A w \in Workers :
                  /\ workers[w].pc \in {"run", "return"} =>
                         /\ lock = w
                         /\ workers[OtherWorker(w)].pc \in {"idle", "done"}
                  /\ workers[w].pc = "done" =>
                         /\ workers[w].requested \in DOMAIN deps_info_cache
                         /\ workers[w].ret = FreshEntry(workers[w].requested)
                         /\ AscendingByName(workers[w].result)
                         /\ Range(workers[w].result) =
                                FreshEntry(workers[w].requested).min_deps
    /\ ~serialized =>
           /\ lock = "none"
           /\ \A f \in Files : Cardinality(inserts[f]) = 2 => raced

\* Without serialization: both workers found a shared dependency absent, and
\* both computed its entry and inserted it.
C26_Witness ==
    /\ ~serialized
    /\ \A w \in Workers : workers[w].pc = "done"
    /\ workers["w1"].requested # workers["w2"].requested
    /\ \E f \in Files :
           /\ inserts[f] = Workers
           /\ f \notin {workers[w].requested : w \in Workers}
           /\ f \in DOMAIN deps_info_cache

(***************************************************************************)
(* Further properties of the generated isInitialized()                     *)
(***************************************************************************)

\* The validation that leaves out no message field: every required field is
\* set, and every message held, in whatever field, is valid in turn.
RECURSIVE UnprunedValid(_, _)
UnprunedValid(desc, m) ==
    \A i \in DOMAIN desc.field :
        LET fd == desc.field[i]
        IN  /\ fd.label = "required" => m[i].has
            /\ fd.type = "message" =>
                   \A k \in DOMAIN m[i].values :
                       UnprunedValid(TypeDescriptor(HeldType(fd)),
                                     m[i].values[k])

OnChangedCalls == {i \in DOMAIN events : events[i].call = "onChanged"}

\* The method is over and had entered its try statement.
LeftTheLoop ==
    ppc \in {"returned", "thrown"} /\ exception # "NullPointerException"

\* The method is over on its null check.
FailedOnNull == ppc = "thrown" /\ exception = "NullPointerException"

\* The fields of the cases whose code completed, in the order they ran.
CompletedCases ==
    LET ran == SelectSeq(events,
                         LAMBDA e : e.call = "case" /\ e.answer = "ok")
    IN  [i \in DOMAIN ran |-> DispatchTable(schema)[ran[i].entry].field]

\* A step takes nothing back that a case stored into the Builder.
NoRollback ==
    /\ Len(merged') >= Len(merged)
    /\ SubSeq(merged', 1, Len(merged)) = merged

\* The step of a call with a null registry fails on the spot.
NullFailsFirst ==
    (ppc = "idle" /\ ppc' = "thrown") =>
        /\ exception' = "NullPointerException"
        /\ UNCHANGED <<input, tag, events, merged>>

\* C30: the parse of a Builder from input calls onChanged() exactly once on
\* every way out of the loop, by return or by exception, and not before; the
\* fields parsed before a failing one stay in the Builder, nothing is taken
\* back; and with a null registry the method throws before it reads a tag,
\* the Builder as it was and onChanged() not called.
C30_ChangeNotifiedOnce ==
    /\ [](/\ LeftTheLoop =>
               /\ Cardinality(OnChangedCalls) = 1
               /\ events[Len(events)].call = "onChanged"
          /\ ~LeftTheLoop => OnChangedCalls = {}
          /\ merged = CompletedCases
          /\ FailedOnNull =>
               /\ events = <<>>
               /\ merged = <<>>
               /\ tag = 0)
    /\ [][NoRollback /\ NullFailsFirst]_vars

\* A parse that stored two fields and then failed on a third, which left by
\* exception with both fields in the Builder and one call of onChanged().
C30_Witness ==
    /\ ppc = "thrown"
    /\ exception = "IOException"
    /\ Len(merged) = 2
    /\ Cardinality(OnChangedCalls) = 1
    /\ \E i \in DOMAIN events :
           /\ events[i].call = "case"
           /\ events[i].answer \in Throwables
           /\ \E j, k \in 1..(i - 1) :
                  /\ j < k
                  /\ events[j].call = "case" /\ events[j].answer = "ok"
                  /\ events[k].call = "case" /\ events[k].answer = "ok"

Spec == ClosureSpec

====
